---------------------------- MODULE Spec2Model ----------------------------
(***************************************************************************)
(* A model of the GTFS report generator (arielcostas/gtfs-feed-parser):     *)
(* the active-service resolver (src/src/services.py), the per-date stop      *)
(* board (process_stop_date), the date-list expansion and the file layout    *)
(* of the two orchestrators (src/src/orchestrators.py), and the loader of    *)
(* the rolling-dates configuration (src/src/rolling_dates.py).               *)
(*                                                                           *)
(* Text is modelled as Python sees it: a str is a sequence of character      *)
(* codes, so that str.replace, str.split, strptime, strftime, int() and the  *)
(* ordering used by sorted() are computed rather than assumed.               *)
(***************************************************************************)
EXTENDS Integers, Sequences, FiniteSets, TLC

VARIABLES
    pc,               \* position of the operation under way
    feed_dir,         \* the content of the feed directory (its tables)
    date,             \* get_active_services: the date argument
    active_services,  \* get_active_services: the returned list
    args,             \* process_stop_date: target_date, numeric_stop_code, source_date
    stop_arrivals,    \* process_stop_date: the returned boards, by stop code
    request,          \* orchestrators: all_dates_flag, start_date, end_date
    mappings,         \* RollingDateConfig.mappings: target date -> source date
    date_list,        \* orchestrators: the list of dates to process
    cursor,           \* orchestrators: index of the next date of date_list
    date_dir,         \* service orchestrator: the local variable date_dir
    files,            \* files written so far: directory, name, date they are for
    config_path,      \* RollingDateConfig: the constructor's argument
    config_file,      \* RollingDateConfig: what is stored at config_path
    entry,            \* RollingDateConfig._load_config: entries validated so far
    retval,           \* what the function under study returned
    calls,            \* the calls made so far of the functions under observation
    faults            \* what the environment makes fail during the run

vars == <<pc, feed_dir, date, active_services, args, stop_arrivals, request,
          mappings, date_list, cursor, date_dir, files, config_path,
          config_file, entry, retval, calls, faults>>

\* Python's None where a str is expected: a value that is no str
None == <<-1>>

\* a local variable that has not been assigned: no list of str
Unbound == <<None>>

-----------------------------------------------------------------------------
(* Characters and strings.                                                  *)

Dash == 45
Slash == 47
Colon == 58

DigitChar(n) == 48 + n
IsDigit(c) == c \in 48..57
AllDigits(s) == \A i \in 1..Len(s) : IsDigit(s[i])

RECURSIVE IntOfDigits(_)
IntOfDigits(s) ==
    IF s = <<>> THEN 0
    ELSE 10 * IntOfDigits(SubSeq(s, 1, Len(s) - 1)) + (s[Len(s)] - 48)

RECURSIVE DigitsOf(_)
DigitsOf(n) ==
    IF n < 10 THEN <<DigitChar(n)>>
    ELSE DigitsOf(n \div 10) \o <<DigitChar(n % 10)>>

RECURSIVE ZeroPad(_, _)
ZeroPad(s, width) ==
    IF Len(s) >= width THEN s ELSE ZeroPad(<<DigitChar(0)>> \o s, width)

\* f"{n:02d}" and strftime's %Y, %m, %d for a non-negative n
Format0(n, width) == ZeroPad(DigitsOf(n), width)

\* f"{n:02d}" for any int n: the sign counts towards the width
FormatInt(n, width) ==
    IF n >= 0 THEN Format0(n, width)
    ELSE <<Dash>> \o ZeroPad(DigitsOf(0 - n), width - 1)

\* str.strip() of blanks
RECURSIVE Strip(_)
Strip(s) ==
    IF s # <<>> /\ s[1] = 32 THEN Strip(Tail(s))
    ELSE IF s # <<>> /\ s[Len(s)] = 32 THEN Strip(SubSeq(s, 1, Len(s) - 1))
    ELSE s

NoInt == [ok |-> FALSE, val |-> 0]

\* int(s): blanks around, an optional sign, then digits; ok = FALSE stands
\* for its ValueError
ParseInt(s) ==
    LET t == Strip(s)
        signed == t # <<>> /\ t[1] \in {43, Dash}
        digits == IF signed THEN Tail(t) ELSE t
    IN  IF digits = <<>> \/ ~AllDigits(digits) THEN NoInt
        ELSE [ok |-> TRUE,
              val |-> IF signed /\ t[1] = Dash THEN 0 - IntOfDigits(digits)
                      ELSE IntOfDigits(digits)]

\* str.replace(ch, "")
Replace(s, ch) == SelectSeq(s, LAMBDA c : c # ch)

FirstIndex(s, ch) ==
    IF \E i \in 1..Len(s) : s[i] = ch
    THEN CHOOSE i \in 1..Len(s) : s[i] = ch /\ \A j \in 1..(i - 1) : s[j] # ch
    ELSE 0

\* str.split(ch)
RECURSIVE Split(_, _)
Split(s, ch) ==
    LET i == FirstIndex(s, ch)
    IN  IF i = 0 THEN <<s>>
        ELSE <<SubSeq(s, 1, i - 1)>> \o Split(SubSeq(s, i + 1, Len(s)), ch)

\* s < t for two str, as sorted() compares them
RECURSIVE StrLess(_, _)
StrLess(s, t) ==
    IF t = <<>> THEN FALSE
    ELSE IF s = <<>> THEN TRUE
    ELSE IF s[1] # t[1] THEN s[1] < t[1]
    ELSE StrLess(Tail(s), Tail(t))

\* list.index(x), 0 standing for the ValueError of a value that is not there
Index(seq, x) ==
    IF \E i \in 1..Len(seq) : seq[i] = x
    THEN CHOOSE i \in 1..Len(seq) : seq[i] = x /\ \A j \in 1..(i - 1) : seq[j] # x
    ELSE 0

Range(seq) == {seq[i] : i \in 1..Len(seq)}

\* all sequences over S of length at most n
SeqsUpTo(S, n) == UNION {[1..k -> S] : k \in 0..n}

-----------------------------------------------------------------------------
(* Calendar dates, as the datetime module computes them.                    *)

IsLeap(y) == y % 4 = 0 /\ (y % 100 # 0 \/ y % 400 = 0)

DaysInMonth(y, m) ==
    IF m = 2 THEN (IF IsLeap(y) THEN 29 ELSE 28)
    ELSE IF m \in {4, 6, 9, 11} THEN 30 ELSE 31

RECURSIVE DaysBeforeMonth(_, _)
DaysBeforeMonth(y, m) ==
    IF m = 1 THEN 0 ELSE DaysBeforeMonth(y, m - 1) + DaysInMonth(y, m - 1)

\* date.toordinal()
Ordinal(d) ==
    LET y1 == d.y - 1
    IN  y1 * 365 + (y1 \div 4) - (y1 \div 100) + (y1 \div 400)
        + DaysBeforeMonth(d.y, d.m) + d.d

\* date.weekday(): Monday is 0, Sunday is 6
Weekday(d) == (Ordinal(d) + 6) % 7

\* d - timedelta(days=1)
PrevDay(d) ==
    IF d.d > 1 THEN [y |-> d.y, m |-> d.m, d |-> d.d - 1]
    ELSE IF d.m > 1 THEN [y |-> d.y, m |-> d.m - 1, d |-> DaysInMonth(d.y, d.m - 1)]
    ELSE [y |-> d.y - 1, m |-> 12, d |-> 31]

\* d + timedelta(days=1)
NextDay(d) ==
    IF d.d < DaysInMonth(d.y, d.m) THEN [y |-> d.y, m |-> d.m, d |-> d.d + 1]
    ELSE IF d.m < 12 THEN [y |-> d.y, m |-> d.m + 1, d |-> 1]
    ELSE [y |-> d.y + 1, m |-> 1, d |-> 1]

\* d.strftime('%Y-%m-%d')
Strftime(d) ==
    Format0(d.y, 4) \o <<Dash>> \o Format0(d.m, 2) \o <<Dash>> \o Format0(d.d, 2)

\* d.strftime('%Y%m%d'), the form of the dates inside the feed
Compact(d) == Format0(d.y, 4) \o Format0(d.m, 2) \o Format0(d.d, 2)

\* the fields strptime's directives accept: %Y is four digits, %m is
\* 1[0-2]|0[1-9]|[1-9], %d is 3[01]|[12]\d|0[1-9]|[1-9]| [1-9]
YearField(s) == Len(s) = 4 /\ AllDigits(s)
MonthField(s) == Len(s) \in {1, 2} /\ AllDigits(s) /\ IntOfDigits(s) \in 1..12
DayField(s) ==
    \/ Len(s) \in {1, 2} /\ AllDigits(s) /\ IntOfDigits(s) \in 1..31
    \/ Len(s) = 2 /\ s[1] = 32 /\ s[2] \in 49..57

NoDate == [ok |-> FALSE, y |-> 0, m |-> 0, d |-> 0]

\* datetime.strptime(s, '%Y-%m-%d'); ok = FALSE stands for its ValueError
Strptime(s) ==
    LET parts == Split(s, Dash)
    IN  IF Len(parts) # 3 THEN NoDate
        ELSE IF ~(YearField(parts[1]) /\ MonthField(parts[2]) /\ DayField(parts[3]))
        THEN NoDate
        ELSE LET y == IntOfDigits(parts[1])
                 m == IntOfDigits(parts[2])
                 d == IntOfDigits(SelectSeq(parts[3], IsDigit))
             IN  IF y >= 1 /\ d <= DaysInMonth(y, m)
                 THEN [ok |-> TRUE, y |-> y, m |-> m, d |-> d]
                 ELSE NoDate

-----------------------------------------------------------------------------
(* The tables of a feed.  A table is missing or present; a present table    *)
(* has a header (column names) and data rows, each row the list of fields   *)
(* that line.strip().split(',') gives.                                      *)

Missing == [status |-> "missing", header |-> <<>>, rows |-> <<>>]
Table(header, rows) == [status |-> "present", header |-> header, rows |-> rows]

WeekdayNames ==
    <<"monday", "tuesday", "wednesday", "thursday", "friday", "saturday", "sunday">>

CalendarHeader == <<"service_id">> \o WeekdayNames \o <<"start_date", "end_date">>
CalendarDatesHeader == <<"service_id", "date", "exception_type">>

-----------------------------------------------------------------------------
(* get_active_services (src/src/services.py).                               *)

\* list.remove(x): the first occurrence only
RemoveFirst(list, x) ==
    LET i == Index(list, x)
    IN  IF i = 0 THEN list
        ELSE SubSeq(list, 1, i - 1) \o SubSeq(list, i + 1, Len(list))

\* a mutant of DayValue: the monday column whatever the weekday
DayValueMonday(parts, header, weekday) == parts[Index(header, "monday")]

\* day_value = parts[weekday_columns[weekday]]
DayValue(parts, header, weekday) == parts[Index(header, WeekdayNames[weekday + 1])]

\* the loop over the data rows of calendar.txt, from row i on
RECURSIVE CalendarLoop(_, _, _, _, _)
CalendarLoop(rows, i, header, weekday, active) ==
    IF i > Len(rows) THEN active
    ELSE LET parts == rows[i]
         IN  IF Len(parts) < Len(header)
             THEN CalendarLoop(rows, i + 1, header, weekday, active)
             ELSE IF DayValue(parts, header, weekday) = "1"
             THEN CalendarLoop(rows, i + 1, header, weekday,
                               Append(active, parts[Index(header, "service_id")]))
             ELSE CalendarLoop(rows, i + 1, header, weekday, active)

\* the calendar.txt block: the list so far, and whether the function returned
ReadCalendar(calendar, weekday) ==
    IF calendar.status = "missing" THEN [returned |-> FALSE, list |-> <<>>]
    ELSE IF Len(calendar.rows) = 0 THEN [returned |-> FALSE, list |-> <<>>]
    ELSE IF \E c \in {"service_id"} \cup Range(WeekdayNames) : Index(calendar.header, c) = 0
    THEN [returned |-> TRUE, list |-> <<>>]
    ELSE [returned |-> FALSE,
          list |-> CalendarLoop(calendar.rows, 1, calendar.header, weekday, <<>>)]

\* one data row of calendar_dates.txt: the two ifs of the loop body
ApplyException(active, service_id, date_value, exception_type, search_date) ==
    LET added == IF date_value = search_date /\ exception_type = "1"
                 THEN Append(active, service_id) ELSE active
    IN  IF date_value = search_date /\ exception_type = "2"
           /\ service_id \in Range(added)
        THEN RemoveFirst(added, service_id)
        ELSE added

\* the loop over the data rows of calendar_dates.txt, from row i on
RECURSIVE CalendarDatesLoop(_, _, _, _, _)
CalendarDatesLoop(rows, i, header, search_date, active) ==
    IF i > Len(rows) THEN active
    ELSE LET parts == rows[i]
         IN  IF Len(parts) < Len(header)
             THEN CalendarDatesLoop(rows, i + 1, header, search_date, active)
             ELSE CalendarDatesLoop(rows, i + 1, header, search_date,
                      ApplyException(active,
                                     parts[Index(header, "service_id")],
                                     parts[Index(header, "date")],
                                     parts[Index(header, "exception_type")],
                                     search_date))

\* the calendar_dates.txt block
ReadCalendarDates(calendar_dates, search_date, active) ==
    IF calendar_dates.status = "missing" THEN active
    ELSE IF Len(calendar_dates.rows) = 0 THEN active
    ELSE IF \E c \in Range(CalendarDatesHeader) : Index(calendar_dates.header, c) = 0
    THEN active
    ELSE CalendarDatesLoop(calendar_dates.rows, 1, calendar_dates.header,
                           search_date, active)

get_active_services(feed, d) ==
    LET search_date == Replace(Replace(Replace(d, Dash), Colon), Slash)
        weekday == Weekday(Strptime(d))
        cal == ReadCalendar(feed.calendar, weekday)
    IN  IF cal.returned THEN cal.list
        ELSE ReadCalendarDates(feed.calendar_dates, search_date, cal.list)

-----------------------------------------------------------------------------
(* Times (src/src/utils.py).                                                *)

\* "HH:MM:SS" from three numbers
TimeStr(h, m, sec) ==
    FormatInt(h, 2) \o <<Colon>> \o FormatInt(m, 2) \o <<Colon>> \o FormatInt(sec, 2)

\* hours, minutes, seconds = map(int, parts), after the two early returns
ParseTime(time_str) ==
    LET parts == Split(time_str, Colon)
    IN  IF time_str = <<>> \/ Len(parts) # 3
        THEN [ok |-> FALSE, h |-> 0, m |-> 0, s |-> 0]
        ELSE LET h == ParseInt(parts[1])
                 m == ParseInt(parts[2])
                 sec == ParseInt(parts[3])
             IN  [ok |-> h.ok /\ m.ok /\ sec.ok, h |-> h.val, m |-> m.val, s |-> sec.val]

\* a mutant of normalize_gtfs_time: 24:00:00 taken for a time of the day
normalize_gtfs_time_after_24(time_str) ==
    LET t == ParseTime(time_str)
    IN  IF t.ok /\ t.h > 24
        THEN [time |-> TimeStr(t.h - 24, t.m, t.s), is_next_day |-> TRUE]
        ELSE [time |-> time_str, is_next_day |-> FALSE]

normalize_gtfs_time(time_str) ==
    LET t == ParseTime(time_str)
    IN  IF t.ok /\ t.h >= 24
        THEN [time |-> TimeStr(t.h - 24, t.m, t.s), is_next_day |-> TRUE]
        ELSE [time |-> time_str, is_next_day |-> FALSE]

time_to_seconds(time_str) ==
    LET t == ParseTime(time_str)
    IN  IF t.ok THEN t.h * 3600 + t.m * 60 + t.s ELSE 0

\* time_to_seconds of src/src/common.py: no test for an empty argument and
\* no try around map(int, parts).  The exception it ends with, "" for a
\* normal return
common_time_to_seconds_raises(time_str) ==
    IF time_str = None THEN "AttributeError"
    ELSE IF Len(Split(time_str, Colon)) = 3 /\ ~ParseTime(time_str).ok THEN "ValueError"
    ELSE ""

\* the value time_to_seconds of src/src/common.py returns
common_time_to_seconds(time_str) ==
    LET parts == Split(time_str, Colon)
    IN  IF Len(parts) # 3 THEN 0
        ELSE ParseInt(parts[1]).val * 3600 + ParseInt(parts[2]).val * 60
             + ParseInt(parts[3]).val

-----------------------------------------------------------------------------
(* The table loaders used by the stop board.  A dict is the list of its     *)
(* (key, value) pairs in insertion order.                                   *)

StopsHeader == <<"stop_id", "stop_code">>
TripsHeader == <<"route_id", "service_id", "trip_id", "trip_headsign", "direction_id">>
StopTimesHeader ==
    <<"trip_id", "arrival_time", "departure_time", "stop_id", "stop_sequence">>

Keys(dict) == {dict[i].key : i \in 1..Len(dict)}

\* dict.get(key, default)
DictGet(dict, key, default) ==
    IF key \in Keys(dict)
    THEN dict[CHOOSE i \in 1..Len(dict) : dict[i].key = key].value
    ELSE default

\* dict[key] = value
DictPut(dict, key, value) ==
    IF key \in Keys(dict)
    THEN [i \in 1..Len(dict) |->
             IF dict[i].key = key THEN [key |-> key, value |-> value] ELSE dict[i]]
    ELSE Append(dict, [key |-> key, value |-> value])

\* a mutant of DictAppend: the item put in front of the list
DictPrepend(dict, key, item) == DictPut(dict, key, <<item>> \o DictGet(dict, key, <<>>))

\* dict[key].append(item), after "if key not in dict: dict[key] = []"
DictAppend(dict, key, item) == DictPut(dict, key, Append(DictGet(dict, key, <<>>), item))

RECURSIVE Concat(_)
Concat(lists) == IF lists = <<>> THEN <<>> ELSE Head(lists) \o Concat(Tail(lists))

\* get_all_stops (src/src/stops.py): stop_id -> stop_code
RECURSIVE StopsLoop(_, _, _, _)
StopsLoop(rows, i, header, stops) ==
    IF i > Len(rows) THEN stops
    ELSE IF Len(rows[i]) < Len(header) THEN StopsLoop(rows, i + 1, header, stops)
    ELSE StopsLoop(rows, i + 1, header,
                   DictPut(stops, rows[i][Index(header, "stop_id")],
                           IF Index(header, "stop_code") = 0 THEN <<>>
                           ELSE rows[i][Index(header, "stop_code")]))

\* without a stop_id column every row raises KeyError and is skipped
get_all_stops(feed) ==
    IF feed.stops.status = "missing" \/ Len(feed.stops.rows) = 0 THEN <<>>
    ELSE IF Index(feed.stops.header, "stop_id") = 0 THEN <<>>
    ELSE StopsLoop(feed.stops.rows, 1, feed.stops.header, <<>>)

\* get_trips_for_services (src/src/trips.py): service_id -> list of trips
RECURSIVE TripsLoop(_, _, _, _, _)
TripsLoop(rows, i, header, service_ids, trips) ==
    IF i > Len(rows) THEN trips
    ELSE LET parts == rows[i]
             service_id == parts[Index(header, "service_id")]
         IN  IF Len(parts) < Len(header) \/ service_id \notin service_ids
             THEN TripsLoop(rows, i + 1, header, service_ids, trips)
             ELSE TripsLoop(rows, i + 1, header, service_ids,
                      DictAppend(trips, service_id,
                                 [route_id |-> parts[Index(header, "route_id")],
                                  service_id |-> service_id,
                                  trip_id |-> parts[Index(header, "trip_id")]]))

get_trips_for_services(feed, service_ids) ==
    IF feed.trips.status = "missing" \/ Len(feed.trips.rows) = 0 THEN <<>>
    ELSE IF \E c \in Range(TripsHeader) : Index(feed.trips.header, c) = 0 THEN <<>>
    ELSE TripsLoop(feed.trips.rows, 1, feed.trips.header, service_ids, <<>>)

\* the exception get_trips_for_services ends with, "" for a normal return:
\* int() of a direction_id that is no number is a ValueError outside every
\* try of the function that names it
get_trips_for_services_raises(feed, service_ids) ==
    IF feed.trips.status = "missing" \/ Len(feed.trips.rows) = 0 THEN ""
    ELSE IF \E c \in Range(TripsHeader) : Index(feed.trips.header, c) = 0 THEN ""
    ELSE IF \E i \in 1..Len(feed.trips.rows) :
               LET parts == feed.trips.rows[i]
               IN  /\ Len(parts) >= Len(feed.trips.header)
                   /\ parts[Index(feed.trips.header, "service_id")] \in service_ids
                   /\ parts[Index(feed.trips.header, "direction_id")] # <<>>
                   /\ ~ParseInt(parts[Index(feed.trips.header, "direction_id")]).ok
    THEN "ValueError"
    ELSE ""

\* a mutant of StableSort: the list as the file gave it
Unsorted(list) == list

\* list.sort(key=...): a stable sort of the records of `list` by their key
RECURSIVE InsertByKey(_, _)
InsertByKey(sorted, x) ==
    IF sorted = <<>> THEN <<x>>
    ELSE IF sorted[Len(sorted)].sort_key <= x.sort_key THEN Append(sorted, x)
    ELSE Append(InsertByKey(SubSeq(sorted, 1, Len(sorted) - 1), x), sorted[Len(sorted)])

RECURSIVE StableSort(_)
StableSort(list) ==
    IF list = <<>> THEN <<>>
    ELSE InsertByKey(StableSort(SubSeq(list, 1, Len(list) - 1)), list[Len(list)])

\* row[column] of csv.DictReader: None for a field a short row lacks
Field(header, row, column) ==
    IF Index(header, column) > Len(row) THEN None ELSE row[Index(header, column)]

\* get_stops_for_trips (src/src/stop_times.py): trip_id -> its stop times,
\* by stop_sequence; a row whose stop_sequence int() rejects is dropped
RECURSIVE StopTimesLoop(_, _, _, _, _)
StopTimesLoop(rows, i, header, trip_ids, stops) ==
    IF i > Len(rows) THEN stops
    ELSE LET row == rows[i]
             trip_id == Field(header, row, "trip_id")
             seq == ParseInt(Field(header, row, "stop_sequence"))
         IN  IF trip_id \notin trip_ids
             THEN StopTimesLoop(rows, i + 1, header, trip_ids, stops)
             ELSE IF ~seq.ok
             THEN StopTimesLoop(rows, i + 1, header, trip_ids,
                                DictPut(stops, trip_id, DictGet(stops, trip_id, <<>>)))
             ELSE StopTimesLoop(rows, i + 1, header, trip_ids,
                      DictAppend(stops, trip_id,
                                 [trip_id |-> trip_id,
                                  arrival_time |-> Field(header, row, "arrival_time"),
                                  departure_time |-> Field(header, row, "departure_time"),
                                  stop_id |-> Field(header, row, "stop_id"),
                                  stop_sequence |-> seq.val,
                                  sort_key |-> seq.val]))

get_stops_for_trips(feed, trip_ids) ==
    IF feed.stop_times.status = "missing" THEN <<>>
    ELSE IF \E c \in Range(StopTimesHeader) : Index(feed.stop_times.header, c) = 0
    THEN <<>>
    ELSE LET stops == StopTimesLoop(feed.stop_times.rows, 1, feed.stop_times.header,
                                    trip_ids, <<>>)
         IN  [i \in 1..Len(stops) |->
                 [key |-> stops[i].key, value |-> StableSort(stops[i].value)]]

\* the exception get_stops_for_trips ends with, "" for a normal return:
\* int(None), the stop_sequence of a wanted row cut short, is a TypeError
\* that no except clause of the function names
get_stops_for_trips_raises(feed, trip_ids) ==
    IF feed.stop_times.status = "missing" THEN ""
    ELSE IF \E c \in Range(StopTimesHeader) : Index(feed.stop_times.header, c) = 0
    THEN ""
    ELSE IF \E i \in 1..Len(feed.stop_times.rows) :
               /\ Field(feed.stop_times.header, feed.stop_times.rows[i], "trip_id") \in trip_ids
               /\ Field(feed.stop_times.header, feed.stop_times.rows[i], "stop_sequence") = None
    THEN "TypeError"
    ELSE ""

\* normalize_stop_code (src/src/utils.py)
RECURSIVE StripLeadingZeros(_)
StripLeadingZeros(s) ==
    IF Len(s) > 1 /\ s[1] = 48 THEN StripLeadingZeros(Tail(s)) ELSE s

normalize_stop_code(stop_code, numeric_only) ==
    IF stop_code = <<>> THEN <<>>
    ELSE IF numeric_only THEN StripLeadingZeros(SelectSeq(stop_code, IsDigit))
    ELSE stop_code

\* create_stop_id_to_code_mapping: the stops whose code is not empty
create_stop_id_to_code_mapping(stops, numeric_stop_code) ==
    SelectSeq([i \in 1..Len(stops) |->
                  [key |-> stops[i].key,
                   value |-> normalize_stop_code(stops[i].value, numeric_stop_code)]],
              LAMBDA e : e.value # <<>>)

-----------------------------------------------------------------------------
(* process_stop_date (src/src/orchestrators.py).                            *)

\* a mutant of date_for_query: the target date even for a rolling date
date_for_query_target(target_date, source_date) == target_date

\* date_for_query = source_date if source_date else target_date
date_for_query(target_date, source_date) ==
    IF source_date # None /\ source_date # <<>> THEN source_date ELSE target_date

\* a mutant of prev_date: the queried date itself
prev_date_same_day(queried) == queried

\* prev_date: the day before the queried date, as a YYYY-MM-DD string
prev_date(queried) == Strftime(PrevDay(Strptime(queried)))

\* a mutant of belongs_to_current_date: the first branch without its test
\* of the next-day flag
belongs_ignoring_next_day(is_current, is_prev, arrival_is_next_day) ==
    is_current \/ (is_prev /\ arrival_is_next_day)

\* belongs_to_current_date, from the two branches of lines 543-548
belongs_to_current_date(is_current, is_prev, arrival_is_next_day) ==
    \/ is_current /\ ~arrival_is_next_day
    \/ is_prev /\ arrival_is_next_day

\* the (trip, stop time) pairs in the order the nested loops visit them
TripStopPairs(trips, stops_for_all_trips) ==
    LET trip_list == Concat([i \in 1..Len(trips) |-> trips[i].value])
    IN  Concat([i \in 1..Len(trip_list) |->
                   LET trip_stops == DictGet(stops_for_all_trips, trip_list[i].trip_id, <<>>)
                   IN  [j \in 1..Len(trip_stops) |->
                           [trip |-> trip_list[i], stop_time |-> trip_stops[j]]]])

\* arrival_data of one stop time, with the key its board is sorted by
arrival_data(trip, stop_time, target_date, source_date) ==
    LET arrival == normalize_gtfs_time(stop_time.arrival_time)
        departure == normalize_gtfs_time(stop_time.departure_time)
    IN  [trip_id |-> trip.trip_id,
         service_id |-> trip.service_id,
         route_id |-> trip.route_id,
         departure_time |-> departure.time,
         arrival_time |-> arrival.time,
         stop_sequence |-> stop_time.stop_sequence,
         rolling_date |-> IF source_date # None
                          THEN <<source_date, target_date>> ELSE None,
         sort_key |-> time_to_seconds(arrival.time)]

\* the value process_stop_date returns for (target_date, numeric_stop_code,
\* source_date): the boards by stop code, each sorted by arrival time
process_stop_date(feed, target_date, numeric_stop_code, source_date) ==
    LET queried == date_for_query(target_date, source_date)
        stops == get_all_stops(feed)
        active == Range(get_active_services(feed, queried))
        prev_active == Range(get_active_services(feed, prev_date(queried)))
        all_services == active \cup prev_active
        trips == get_trips_for_services(feed, all_services)
        all_trip_ids ==
            {t.trip_id : t \in Range(Concat([i \in 1..Len(trips) |-> trips[i].value]))}
        stops_for_all_trips == get_stops_for_trips(feed, all_trip_ids)
        stop_id_to_code == create_stop_id_to_code_mapping(stops, numeric_stop_code)
        kept == SelectSeq(TripStopPairs(trips, stops_for_all_trips),
                    LAMBDA p :
                        /\ belongs_to_current_date(
                               p.trip.service_id \in active,
                               p.trip.service_id \in prev_active,
                               normalize_gtfs_time(p.stop_time.arrival_time).is_next_day)
                        /\ DictGet(stop_id_to_code, p.stop_time.stop_id, <<>>) # <<>>)
        code(p) == DictGet(stop_id_to_code, p.stop_time.stop_id, <<>>)
    IN  IF all_services = {} THEN <<>>
        ELSE [c \in {code(kept[i]) : i \in 1..Len(kept)} |->
                 StableSort(
                     LET mine == SelectSeq(kept, LAMBDA p : code(p) = c)
                     IN  [i \in 1..Len(mine) |->
                             arrival_data(mine[i].trip, mine[i].stop_time,
                                          target_date, source_date)])]

-----------------------------------------------------------------------------
(* The feeds and dates the resolver is run on.                              *)

NumDays == 2
MaxCalendarRows == 2
MaxExceptionRows == 3

\* 2025-06-30 is a Monday; the day after it starts a new month
FirstDate == [y |-> 2025, m |-> 6, d |-> 30]

RECURSIVE DateAt(_)
DateAt(k) == IF k = 0 THEN FirstDate ELSE NextDay(DateAt(k - 1))

\* the dates of the model, as the YYYY-MM-DD strings the callers pass
Dates == {Strftime(DateAt(k)) : k \in 0..(NumDays - 1)}

Flag(days, k) == IF k \in days THEN "1" ELSE "0"

\* a row of calendar.txt: the service, the weekdays it is flagged for
\* (Monday is 0), and its validity window
CalendarRow(service_id, days, start, end) ==
    <<service_id>> \o [k \in 1..7 |-> Flag(days, k - 1)] \o <<Compact(start), Compact(end)>>

June1 == [y |-> 2025, m |-> 6, d |-> 1]
August31 == [y |-> 2025, m |-> 8, d |-> 31]
January1 == [y |-> 2024, m |-> 1, d |-> 1]
January31 == [y |-> 2024, m |-> 1, d |-> 31]

\* rows of calendar.txt: S1 runs on Mondays (once with a window around the
\* dates of the model, once with a window that ended long before), S2 runs
\* every day, and a line of S2 cut short after its weekday flags
CalendarRows ==
    { CalendarRow("S1", {0}, June1, August31),
      CalendarRow("S1", {0}, January1, January31),
      CalendarRow("S2", 0..6, June1, August31),
      SubSeq(CalendarRow("S2", 0..6, June1, August31), 1, 8) }

\* a header of calendar.txt that lacks the sunday column
CalendarHeaderNoSunday == SelectSeq(CalendarHeader, LAMBDA c : c # "sunday")

Calendars ==
    {Missing}
    \cup {Table(h, rows) : h \in {CalendarHeader, CalendarHeaderNoSunday},
                           rows \in SeqsUpTo(CalendarRows, MaxCalendarRows)}

\* rows of calendar_dates.txt: S1 added and removed on the first date, S2
\* removed on it, S1 removed on the day after, and a line cut short
ExceptionRows ==
    { <<"S1", Compact(DateAt(0)), "1">>,
      <<"S1", Compact(DateAt(0)), "2">>,
      <<"S2", Compact(DateAt(0)), "2">>,
      <<"S1", Compact(DateAt(1)), "2">>,
      <<"S1", Compact(DateAt(0))>> }

\* a header of calendar_dates.txt that lacks the exception_type column
CalendarDatesHeaderShort == <<"service_id", "date">>

CalendarDates ==
    {Missing}
    \cup {Table(h, rows) : h \in {CalendarDatesHeader, CalendarDatesHeaderShort},
                           rows \in SeqsUpTo(ExceptionRows, MaxExceptionRows)}

NoFeed == [calendar |-> Missing, calendar_dates |-> Missing]

Unused ==
    /\ retval = None
    /\ args = None
    /\ stop_arrivals = None
    /\ request = None
    /\ mappings = None
    /\ date_list = <<>>
    /\ cursor = 0
    /\ date_dir = Unbound
    /\ files = {}
    /\ config_path = None
    /\ config_file = None
    /\ entry = 0
    /\ calls = <<>>
    /\ faults = {}

InitServices ==
    /\ pc = "call"
    /\ feed_dir \in [calendar : Calendars, calendar_dates : CalendarDates]
    /\ date \in Dates
    /\ active_services = <<>>
    /\ Unused

\* the call get_active_services(feed_dir, date) and its return
GetActiveServices ==
    /\ pc = "call"
    /\ active_services' = get_active_services(feed_dir, date)
    /\ pc' = "return"
    /\ UNCHANGED <<calls, faults, retval, feed_dir, date, args, stop_arrivals, request, mappings,
                   date_list, cursor, date_dir, files, config_path,
                   config_file, entry>>

NextServices == GetActiveServices

SpecServices == InitServices /\ [][NextServices]_vars

-----------------------------------------------------------------------------
(* Claims about get_active_services.                                        *)

\* the header of a present table names every column of `columns`
HasColumns(table, columns) ==
    table.status = "present" /\ \A c \in columns : Index(table.header, c) # 0

\* the data rows of a table that have a field for every column of the header
CompleteRows(table) ==
    {table.rows[i] : i \in {j \in 1..Len(table.rows) :
                              Len(table.rows[j]) >= Len(table.header)}}

\* the services for which calendar_dates.txt holds a row (S, d, type)
ExceptionsOn(feed, d, type) ==
    IF HasColumns(feed.calendar_dates, Range(CalendarDatesHeader))
    THEN {r[1] : r \in {x \in CompleteRows(feed.calendar_dates) :
                          x[2] = Compact(Strptime(d)) /\ x[3] = type}}
    ELSE {}

\* the services flagged in calendar.txt for the weekday of d
FlaggedOn(feed, d) ==
    IF HasColumns(feed.calendar, Range(CalendarHeader))
    THEN {r[1] : r \in {x \in CompleteRows(feed.calendar) :
                          x[2 + Weekday(Strptime(d))] = "1"}}
    ELSE {}

\* C1: a service that calendar_dates.txt removes on the queried date (a row
\* of exception_type 2) is not in the returned list, whether calendar.txt or
\* a type-1 row activated it.
C1_RemovalWins ==
    pc = "return" =>
        \A s \in ExceptionsOn(feed_dir, date, "2") : s \notin Range(active_services)

\* the data rows of a table in every order
Reorderings(rows) ==
    {[i \in 1..Len(rows) |-> rows[p[i]]] :
        p \in {q \in [1..Len(rows) -> 1..Len(rows)] :
                 \A i, j \in 1..Len(rows) : q[i] = q[j] => i = j}}

\* C2: the set of services returned is the same for every order of the data
\* rows of calendar_dates.txt.
C2_RowOrderIrrelevant ==
    pc = "return" =>
        \A rows \in Reorderings(feed_dir.calendar_dates.rows) :
            Range(get_active_services(
                      [feed_dir EXCEPT !.calendar_dates.rows = rows], date))
                = Range(active_services)

\* C3: with no exception row for the queried date, a service is returned if
\* and only if a row of calendar.txt (a line with a field for every column of
\* a header that names the service and weekday columns) has "1" in the column
\* of the date's weekday, whatever the row's start_date and end_date.
C3_WeekdayFlagDecides ==
    (/\ pc = "return"
     /\ ExceptionsOn(feed_dir, date, "1") = {}
     /\ ExceptionsOn(feed_dir, date, "2") = {}
     /\ (feed_dir.calendar.status = "present"
            => HasColumns(feed_dir.calendar, Range(CalendarHeader))))
    => Range(active_services) = FlaggedOn(feed_dir, date)

\* C3's case: S1 is flagged for Mondays only, in a row whose validity window
\* ended in 2024; it is returned for Monday 2025-06-30
C3_MondayReturned ==
    /\ pc = "return"
    /\ date = Strftime(FirstDate)
    /\ Weekday(Strptime(date)) = 0
    /\ feed_dir.calendar = Table(CalendarHeader,
                                 <<CalendarRow("S1", {0}, January1, January31)>>)
    /\ ExceptionsOn(feed_dir, date, "1") = {}
    /\ ExceptionsOn(feed_dir, date, "2") = {}
    /\ Range(active_services) = {"S1"}

\* C4: no service occurs twice in the returned collection.
C4_NoServiceTwice ==
    pc = "return" =>
        \A i, j \in 1..Len(active_services) :
            active_services[i] = active_services[j] => i = j

-----------------------------------------------------------------------------
(* The feeds and arguments process_stop_date is run on.                     *)

MaxStopTimes == 2

\* rows of calendar.txt: S1 runs on Mondays, S2 on Tuesdays, S2 on Sundays
StopCalendarRows ==
    { CalendarRow("S1", {0}, June1, August31),
      CalendarRow("S2", {1}, June1, August31),
      CalendarRow("S2", {6}, June1, August31) }

\* stops.txt: A and C have a stop code, B has none
StopsTable ==
    Table(StopsHeader, << <<"A", <<49, 50>>>>, <<"B", <<>>>>, <<"C", <<48, 55>>>> >>)

\* trips.txt: trip T1 of service S1, trip T2 of service S2
TripsTable ==
    Table(TripsHeader, << <<"R1", "S1", "T1", "Centro", <<48>>>>,
                          <<"R1", "S2", "T2", "Centro", <<49>>>> >>)

StopTimeRow(trip_id, time, stop_id, seq) == <<trip_id, time, time, stop_id, DigitsOf(seq)>>

\* rows of stop_times.txt: late-evening and past-midnight arrivals of both
\* trips, one at the stop without a code, one without an arrival time
StopTimeRows ==
    { StopTimeRow("T1", TimeStr(23, 50, 0), "A", 1),
      StopTimeRow("T1", TimeStr(24, 15, 0), "A", 2),
      StopTimeRow("T2", TimeStr(0, 15, 0), "A", 1),
      StopTimeRow("T2", TimeStr(24, 15, 0), "C", 2),
      StopTimeRow("T1", TimeStr(23, 55, 0), "B", 3),
      StopTimeRow("T2", <<>>, "A", 3) }

StopFeeds ==
    [calendar : {Table(CalendarHeader, rows) :
                    rows \in SeqsUpTo(StopCalendarRows, MaxCalendarRows)},
     calendar_dates : {Missing},
     stops : {StopsTable},
     trips : {TripsTable},
     stop_times : {Table(StopTimesHeader, rows) :
                      rows \in SeqsUpTo(StopTimeRows, MaxStopTimes)}]

InitStopDate ==
    /\ retval = None
    /\ pc = "call"
    /\ feed_dir \in StopFeeds
    /\ args \in [target_date : Dates, numeric_stop_code : BOOLEAN,
                 source_date : Dates \cup {None}]
    /\ stop_arrivals = <<>>
    /\ date = None
    /\ active_services = <<>>
    /\ request = None
    /\ mappings = None
    /\ date_list = <<>>
    /\ cursor = 0
    /\ date_dir = Unbound
    /\ files = {}
    /\ config_path = None
    /\ config_file = None
    /\ entry = 0
    /\ calls = <<>>
    /\ faults = {}

\* the call process_stop_date(args) and its return
ProcessStopDate ==
    /\ pc = "call"
    /\ stop_arrivals' = process_stop_date(feed_dir, args.target_date,
                                          args.numeric_stop_code, args.source_date)
    /\ pc' = "return"
    /\ UNCHANGED <<calls, faults, retval, feed_dir, date, active_services, args, request, mappings,
                   date_list, cursor, date_dir, files, config_path,
                   config_file, entry>>

NextStopDate == ProcessStopDate

SpecStopDate == InitStopDate /\ [][NextStopDate]_vars

-----------------------------------------------------------------------------
(* Claims about process_stop_date.                                          *)

\* the date whose schedule is queried: the source date of a rolling date
QueriedDate == IF args.source_date = None THEN args.target_date ELSE args.source_date

ActiveOn(d) == Range(get_active_services(feed_dir, d))
DayBefore(d) == Strftime(PrevDay(Strptime(d)))

\* a next-day time: a well-formed HH:MM:SS whose hour is 24 or more
IsNextDayTime(t) == ParseTime(t).ok /\ ParseTime(t).h >= 24

\* the rows of stop_times.txt whose trip is in trips.txt and whose stop has
\* a stop code, as the indexes of the rows
TripRows(trip_id) ==
    {r \in Range(feed_dir.trips.rows) : r[3] = trip_id}
StopCodeOf(stop_id) ==
    normalize_stop_code(DictGet(get_all_stops(feed_dir), stop_id, <<>>),
                        args.numeric_stop_code)
BoardRows ==
    {i \in 1..Len(feed_dir.stop_times.rows) :
        /\ TripRows(feed_dir.stop_times.rows[i][1]) # {}
        /\ StopCodeOf(feed_dir.stop_times.rows[i][4]) # <<>>}
ServiceOfRow(i) ==
    (CHOOSE r \in TripRows(feed_dir.stop_times.rows[i][1]) : TRUE)[2]

\* conditions (a) and (b) of the claim for row i and date d
BelongsTo(i, d) ==
    LET t == feed_dir.stop_times.rows[i][2]
    IN  \/ ServiceOfRow(i) \in ActiveOn(d) /\ ~IsNextDayTime(t)
        \/ ServiceOfRow(i) \in ActiveOn(DayBefore(d)) /\ IsNextDayTime(t)

\* how row i is listed: its stop code, trip, sequence number, and its
\* arrival time, less 24 hours for a next-day time
Listing(i) ==
    LET row == feed_dir.stop_times.rows[i]
        t == ParseTime(row[2])
    IN  [code |-> StopCodeOf(row[4]),
         trip_id |-> row[1],
         stop_sequence |-> ParseInt(row[5]).val,
         arrival_time |-> IF IsNextDayTime(row[2])
                          THEN TimeStr(t.h - 24, t.m, t.s) ELSE row[2]]

\* the entries of the boards, as (stop code, position) pairs, and what each lists
BoardEntries ==
    UNION {{<<c, k>> : k \in 1..Len(stop_arrivals[c])} : c \in DOMAIN stop_arrivals}
EntryListing(e) ==
    [code |-> e[1],
     trip_id |-> stop_arrivals[e[1]][e[2]].trip_id,
     stop_sequence |-> stop_arrivals[e[1]][e[2]].stop_sequence,
     arrival_time |-> stop_arrivals[e[1]][e[2]].arrival_time]

\* C5: the board of the queried date D lists a stop time (of a stop with a
\* stop code) exactly when (a) its service is active on D and its arrival is
\* not a next-day time, or (b) its service is active on D-1 and its arrival is
\* a next-day time, listed then with 24 hours less; every listing is on the
\* board as many times as rows call for it, and nothing else is.
C5_BoardMembership ==
    pc = "return" =>
        \A l \in {Listing(i) : i \in BoardRows} \cup {EntryListing(e) : e \in BoardEntries} :
            Cardinality({e \in BoardEntries : EntryListing(e) = l})
                = Cardinality({i \in BoardRows :
                                  Listing(i) = l /\ BelongsTo(i, QueriedDate)})

\* C5's case: trip T1 of S1, which runs on Monday and not on Tuesday,
\* arrives at 24:15:00; Tuesday's board lists it at 00:15:00
C5_CrossMidnightListed ==
    /\ pc = "return"
    /\ args.source_date = None
    /\ args.target_date = Strftime(DateAt(1))
    /\ "S1" \in ActiveOn(Strftime(DateAt(0)))
    /\ "S1" \notin ActiveOn(Strftime(DateAt(1)))
    /\ \E i \in BoardRows :
          /\ feed_dir.stop_times.rows[i][1] = "T1"
          /\ feed_dir.stop_times.rows[i][2] = TimeStr(24, 15, 0)
    /\ \E e \in BoardEntries :
          /\ EntryListing(e).trip_id = "T1"
          /\ EntryListing(e).arrival_time = TimeStr(0, 15, 0)

\* a board without the metadata a rolling date adds to its records
WithoutRollingDate(boards) ==
    [c \in DOMAIN boards |->
        [k \in 1..Len(boards[c]) |-> [boards[c][k] EXCEPT !.rolling_date = None]]]

\* C6: for a rolling date T with source S the boards are those of S processed
\* as a normal date, apart from the rolling metadata of the records.
C6_RollingUsesSource ==
    (pc = "return" /\ args.source_date # None) =>
        WithoutRollingDate(stop_arrivals)
            = WithoutRollingDate(process_stop_date(feed_dir, args.source_date,
                                                   args.numeric_stop_code, None))

\* C6's case: a rolling date whose own weekday would give other boards
C6_RollingDiffersFromTarget ==
    /\ pc = "return"
    /\ args.source_date # None
    /\ args.source_date # args.target_date
    /\ DOMAIN stop_arrivals # {}
    /\ \A c \in DOMAIN stop_arrivals : \A k \in 1..Len(stop_arrivals[c]) :
          stop_arrivals[c][k].rolling_date = <<args.source_date, args.target_date>>
    /\ WithoutRollingDate(stop_arrivals)
          # WithoutRollingDate(process_stop_date(feed_dir, args.target_date,
                                                 args.numeric_stop_code, None))

-----------------------------------------------------------------------------
(* RollingDateConfig: the constructor and _load_config.  The file at        *)
(* config_path is missing, is no JSON, is a JSON array, or is a JSON object *)
(* whose members are given in file order; a member's value is a str or      *)
(* null.                                                                    *)

MaxConfigEntries == 2

\* a date outside the dates of the feed, the target of a rolling mapping
RollingTarget == [y |-> 2025, m |-> 7, d |-> 5]
February30 == [y |-> 2025, m |-> 2, d |-> 30]

\* a date written with a separator and a minimum width for month and day
Written(d, sep, width) ==
    Format0(d.y, 4) \o <<sep>> \o Format0(d.m, width) \o <<sep>> \o Format0(d.d, width)

\* keys of the file: 2025-07-05, 2025-7-5, 2025/07/05 and the second date
\* of the feed
ConfigKeys ==
    { Strftime(RollingTarget), Written(RollingTarget, Dash, 1),
      Written(RollingTarget, Slash, 2), Strftime(DateAt(1)) }

\* values of the file: the first date of the feed, 2025-02-30 and null
ConfigValues == { Strftime(DateAt(0)), Strftime(February30), None }

ConfigMembers == [key : ConfigKeys, value : ConfigValues]

ConfigFile(kind, members) == [kind |-> kind, members |-> members]

ConfigFiles ==
    {ConfigFile(k, <<>>) : k \in {"missing", "invalid", "array"}}
    \cup {ConfigFile("object", ms) : ms \in SeqsUpTo(ConfigMembers, MaxConfigEntries)}

\* config_path: None, the empty str, or the path of the file, "r.json"
ConfigPaths == {None, <<>>, <<114, 46, 106, 115, 111, 110>>}

\* json.load of an object: a dict in the order of the first occurrence of
\* each key, a repeated key keeping its last value
RECURSIVE JsonObject(_)
JsonObject(members) ==
    IF members = <<>> THEN <<>>
    ELSE LET last == members[Len(members)]
         IN  DictPut(JsonObject(SubSeq(members, 1, Len(members) - 1)),
                     last.key, last.value)

\* data, the value json.load returned
data == JsonObject(config_file.members)

\* the exception _validate_date_format(date_str, ...) ends with; "" for a
\* normal return.  strptime raises TypeError for an argument that is no str
_validate_date_format(date_str) ==
    IF date_str = None THEN "TypeError"
    ELSE IF Strptime(date_str).ok THEN "" ELSE "ValueError"

Exceptions == {"FileNotFoundError", "JSONDecodeError", "ValueError", "TypeError"}

InitConfig ==
    /\ retval = None
    /\ pc = "new"
    /\ config_path \in ConfigPaths
    /\ config_file \in ConfigFiles
    /\ mappings = None
    /\ entry = 0
    /\ calls = <<>>
    /\ faults = {}
    /\ feed_dir = NoFeed
    /\ date = None
    /\ active_services = <<>>
    /\ args = None
    /\ stop_arrivals = None
    /\ request = None
    /\ date_list = <<>>
    /\ cursor = 0
    /\ date_dir = Unbound
    /\ files = {}

\* RollingDateConfig.__init__
Construct ==
    /\ pc = "new"
    /\ mappings' = <<>>
    /\ pc' = IF config_path # None /\ config_path # <<>> THEN "load" ELSE "ready"
    /\ UNCHANGED <<calls, faults, retval, feed_dir, date, active_services, args, stop_arrivals, request,
                   date_list, cursor, date_dir, files, config_path,
                   config_file, entry>>

\* _load_config up to the loop: the file is looked for, parsed, and its
\* top-level value tested
LoadConfig ==
    /\ pc = "load"
    /\ pc' = CASE config_file.kind = "missing" -> "FileNotFoundError"
               [] config_file.kind = "invalid" -> "JSONDecodeError"
               [] config_file.kind = "array" -> "ValueError"
               [] OTHER -> "validate"
    /\ entry' = 0
    /\ UNCHANGED <<calls, faults, retval, feed_dir, date, active_services, args, stop_arrivals, request,
                   mappings, date_list, cursor, date_dir, files, config_path,
                   config_file>>

\* one turn of the loop over data.items(): the target, then the source
ValidateEntry ==
    /\ pc = "validate"
    /\ entry < Len(data)
    /\ LET target == _validate_date_format(data[entry + 1].key)
           source == _validate_date_format(data[entry + 1].value)
       IN  IF target # "" THEN pc' = target /\ entry' = entry
           ELSE IF source # "" THEN pc' = source /\ entry' = entry
           ELSE pc' = pc /\ entry' = entry + 1
    /\ UNCHANGED <<calls, faults, retval, feed_dir, date, active_services, args, stop_arrivals, request,
                   mappings, date_list, cursor, date_dir, files, config_path,
                   config_file>>

\* self.mappings = data, once every entry has passed
AssignMappings ==
    /\ pc = "validate"
    /\ entry = Len(data)
    /\ mappings' = data
    /\ pc' = "ready"
    /\ UNCHANGED <<calls, faults, retval, feed_dir, date, active_services, args, stop_arrivals, request,
                   date_list, cursor, date_dir, files, config_path,
                   config_file, entry>>

NextConfig == Construct \/ LoadConfig \/ ValidateEntry \/ AssignMappings

SpecConfig == InitConfig /\ [][NextConfig]_vars

\* a str in the form YYYY-MM-DD that names a day of the calendar
IsCalendarDate(s) ==
    /\ s # None
    /\ Len(s) = 10
    /\ s[5] = Dash /\ s[8] = Dash
    /\ \A i \in {1, 2, 3, 4, 6, 7, 9, 10} : IsDigit(s[i])
    /\ LET y == IntOfDigits(SubSeq(s, 1, 4))
           m == IntOfDigits(SubSeq(s, 6, 7))
           d == IntOfDigits(SubSeq(s, 9, 10))
       IN  y >= 1 /\ m \in 1..12 /\ d \in 1..DaysInMonth(y, m)

\* the file cannot be loaded: it is missing, is no JSON object, or holds a
\* key or a value that is no YYYY-MM-DD calendar date
BadConfig ==
    \/ config_file.kind # "object"
    \/ \E i \in 1..Len(data) :
          ~IsCalendarDate(data[i].key) \/ ~IsCalendarDate(data[i].value)

Returned == pc \in Exceptions \cup {"ready"}

\* C10: with a non-empty config_path, a file that is missing, is no JSON
\* object or holds a key or value that is no valid YYYY-MM-DD calendar date
\* makes the load raise, and the object never holds a part of the file: its
\* mapping is empty until the whole file has been validated and is the whole
\* file afterwards.
C10_BadConfigRaises ==
    (pc # "new" /\ config_path # None /\ config_path # <<>>) =>
        /\ mappings \in {<<>>, data}
        /\ pc = "ready" => mappings = data
        /\ (Returned /\ BadConfig) => (pc \in Exceptions /\ mappings = <<>>)

-----------------------------------------------------------------------------
(* The date list of the two report orchestrators (get_date_list and the     *)
(* rolling dates added to it).                                              *)

\* rolling_config.has_mappings()
has_mappings(dict) == Len(dict) > 0

\* list(rolling_config.get_all_mappings().keys())
rolling_dates(dict) == [i \in 1..Len(dict) |-> dict[i].key]

\* sorted(set(...)) of str
RECURSIVE sorted(_)
sorted(S) ==
    IF S = {} THEN <<>>
    ELSE LET least == CHOOSE x \in S : \A y \in S \ {x} : StrLess(x, y)
         IN  <<least>> \o sorted(S \ {least})

\* min() and max() of a non-empty list of str
Min(list) == CHOOSE x \in Range(list) : \A y \in Range(list) : ~StrLess(y, x)
Max(list) == CHOOSE x \in Range(list) : \A y \in Range(list) : ~StrLess(x, y)

\* the loop of date_range and of get_all_feed_dates: the days from d to end
RECURSIVE DaysUpTo(_, _)
DaysUpTo(d, end) ==
    IF Ordinal(d) > Ordinal(end) THEN <<>>
    ELSE <<Strftime(d)>> \o DaysUpTo(NextDay(d), end)

\* list(date_range(start, end))
date_range(start, end) == DaysUpTo(Strptime(start), Strptime(end))

\* datetime.strptime(s, '%Y%m%d') of eight digits
StrptimeCompact(s) ==
    IF Len(s) # 8 \/ ~AllDigits(s) THEN NoDate
    ELSE LET y == IntOfDigits(SubSeq(s, 1, 4))
             m == IntOfDigits(SubSeq(s, 5, 6))
             d == IntOfDigits(SubSeq(s, 7, 8))
         IN  IF y >= 1 /\ m \in 1..12 /\ d \in 1..DaysInMonth(y, m)
             THEN [ok |-> TRUE, y |-> y, m |-> m, d |-> d]
             ELSE NoDate

\* row.get(column) of csv.DictReader: None for a column the header or the
\* row lacks
RowGet(table, row, column) ==
    LET i == Index(table.header, column)
    IN  IF i = 0 \/ i > Len(row) THEN None ELSE row[i]

Truthy(s) == s # None /\ s # <<>> /\ s # ""

\* the rows of calendar.txt that have a start_date and an end_date
DatedRows(table) ==
    SelectSeq(table.rows, LAMBDA row : /\ Truthy(RowGet(table, row, "start_date"))
                                       /\ Truthy(RowGet(table, row, "end_date")))

\* f"{d[:4]}-{d[4:6]}-{d[6:]}"
Hyphenate(d) ==
    SubSeq(d, 1, 4) \o <<Dash>> \o SubSeq(d, 5, 6) \o <<Dash>> \o SubSeq(d, 7, Len(d))

\* get_all_feed_dates: the days from the least start_date to the greatest
\* end_date of calendar.txt, else the dates of the type-1 rows of
\* calendar_dates.txt, else nothing
get_all_feed_dates(feed) ==
    LET dated == IF feed.calendar.status = "present"
                 THEN DatedRows(feed.calendar) ELSE <<>>
        start_dates == [i \in 1..Len(dated) |-> RowGet(feed.calendar, dated[i], "start_date")]
        end_dates == [i \in 1..Len(dated) |-> RowGet(feed.calendar, dated[i], "end_date")]
        added == SelectSeq(feed.calendar_dates.rows,
                     LAMBDA row : /\ RowGet(feed.calendar_dates, row, "exception_type") = "1"
                                  /\ Truthy(RowGet(feed.calendar_dates, row, "date")))
    IN  IF dated # <<>>
        THEN DaysUpTo(StrptimeCompact(Min(start_dates)), StrptimeCompact(Max(end_dates)))
        ELSE IF feed.calendar_dates.status = "present"
        THEN sorted({Hyphenate(RowGet(feed.calendar_dates, added[i], "date")) :
                        i \in 1..Len(added)})
        ELSE <<>>

\* get_date_list; its ValueError for a feed without dates is raised by the
\* caller's step
get_date_list(all_dates, start_date, end_date, feed) ==
    IF all_dates THEN get_all_feed_dates(feed)
    ELSE date_range(start_date, IF Truthy(end_date) THEN end_date ELSE start_date)

\* a mutant of add_rolling_dates: the rolling dates appended to the list
append_rolling_dates(list, dict) ==
    IF has_mappings(dict) THEN list \o rolling_dates(dict) ELSE list

\* a mutant of add_rolling_dates: the list sorted without being made a set
RECURSIVE InsertStr(_, _)
InsertStr(list, x) ==
    IF list = <<>> THEN <<x>>
    ELSE IF StrLess(x, Head(list)) THEN <<x>> \o list
    ELSE <<Head(list)>> \o InsertStr(Tail(list), x)

RECURSIVE SortList(_)
SortList(list) ==
    IF list = <<>> THEN <<>> ELSE InsertStr(SortList(Tail(list)), Head(list))

sort_rolling_dates(list, dict) ==
    IF has_mappings(dict) THEN SortList(list \o rolling_dates(dict)) ELSE list

\* "Add all rolling dates from config to date_list":
\* date_list = sorted(set(date_list + rolling_dates)) when there are mappings
add_rolling_dates(list, dict) ==
    IF has_mappings(dict)
    THEN sorted(Range(list) \cup Range(rolling_dates(dict)))
    ELSE list

-----------------------------------------------------------------------------
(* The runs of the orchestrators: feeds, requests and loaded mappings.      *)

LastDate == DateAt(NumDays - 1)

\* calendar.txt of a feed valid for the dates of the model: nothing, S1 on
\* Mondays, S1 on Mondays and S2 on Tuesdays, S2 every day
ReportCalendars ==
    { Missing,
      Table(CalendarHeader, << CalendarRow("S1", {0}, FirstDate, LastDate) >>),
      Table(CalendarHeader, << CalendarRow("S1", {0}, FirstDate, LastDate),
                               CalendarRow("S2", {1}, FirstDate, LastDate) >>),
      Table(CalendarHeader, << CalendarRow("S2", 0..6, FirstDate, LastDate) >>) }

\* calendar_dates.txt: nothing, or S2 added on the second date
ReportCalendarDates ==
    { Missing, Table(CalendarDatesHeader, << <<"S2", Compact(DateAt(1)), "1">> >>) }

\* trips.txt without a trip of service S2
TripsTableS1 == Table(TripsHeader, << <<"R1", "S1", "T1", "Centro", <<48>>>> >>)

ReportStopTimes ==
    Table(StopTimesHeader, << StopTimeRow("T1", TimeStr(23, 50, 0), "A", 1),
                              StopTimeRow("T1", TimeStr(24, 15, 0), "C", 2),
                              StopTimeRow("T2", TimeStr(8, 0, 0), "A", 1) >>)

\* routes.txt
RoutesHeader == <<"route_id", "route_short_name", "route_color">>

\* routes.txt with the route of every trip
RoutesTable == Table(RoutesHeader, << <<"R1", <<49>>, <<102, 102, 48, 48, 48, 48>>>> >>)

ReportFeeds ==
    [calendar : ReportCalendars,
     calendar_dates : ReportCalendarDates,
     stops : {StopsTable, Missing},
     trips : {TripsTable, TripsTableS1},
     stop_times : {ReportStopTimes},
     routes : {RoutesTable}]

\* the arguments of an orchestrator: all the dates of the feed, or the
\* dates from start_date to end_date (to start_date when there is no end)
Requests ==
    { r \in [report : {"services", "stops"},
             all_dates_flag : BOOLEAN,
             start_date : Dates \cup {None},
             end_date : Dates \cup {None},
             numeric_stop_code : BOOLEAN] :
        /\ r.all_dates_flag <=> r.start_date = None
        /\ r.all_dates_flag => r.end_date = None
        /\ r.report = "services" => ~r.numeric_stop_code }

\* the mappings RollingDateConfig can hold after a load: every key passed
\* _validate_date_format, every value is a date of the feed
RollingMembers ==
    [key : {k \in ConfigKeys : _validate_date_format(k) = ""}, value : Dates]

RollingMappings ==
    {JsonObject(ms) : ms \in SeqsUpTo(RollingMembers, MaxConfigEntries)}

Idle ==
    /\ retval = None
    /\ date = None
    /\ active_services = <<>>
    /\ args = <<>>
    /\ stop_arrivals = <<>>
    /\ date_list = <<>>
    /\ cursor = 0
    /\ date_dir = Unbound
    /\ files = {}
    /\ config_path = None
    /\ config_file = None
    /\ entry = 0
    /\ calls = <<>>
    /\ faults = {}

\* date_list = get_date_list(all_dates_flag, start_date, end_date, feed_dir)
GetDateList ==
    /\ pc = "start"
    /\ LET list == get_date_list(request.all_dates_flag, request.start_date,
                                 request.end_date, feed_dir)
       IN  IF request.all_dates_flag /\ list = <<>>
           THEN pc' = "ValueError" /\ date_list' = date_list
           ELSE pc' = "expand" /\ date_list' = list
    /\ UNCHANGED <<calls, faults, retval, feed_dir, date, active_services, args, stop_arrivals, request,
                   mappings, cursor, date_dir, files, config_path,
                   config_file, entry>>

\* the rolling dates are added; an empty list ends the run with ValueError
ExpandDateList ==
    /\ pc = "expand"
    /\ date_list' = add_rolling_dates(date_list, mappings)
    /\ pc' = IF date_list' = <<>> THEN "ValueError"
             ELSE IF request.report = "services" THEN "preload" ELSE "args"
    /\ UNCHANGED <<calls, faults, retval, feed_dir, date, active_services, args, stop_arrivals, request,
                   mappings, cursor, date_dir, files, config_path,
                   config_file, entry>>

\* only the calendar files matter to the date list
InitDateList ==
    /\ pc = "start"
    /\ feed_dir \in {f \in ReportFeeds : f.stops = StopsTable /\ f.trips = TripsTable}
    /\ request \in Requests
    /\ mappings \in RollingMappings
    /\ Idle

NextDateList == GetDateList \/ ExpandDateList

SpecDateList == InitDateList /\ [][NextDateList]_vars

-----------------------------------------------------------------------------
(* Claims about the date list.                                              *)

\* what get_date_list returned for the request
Requested ==
    get_date_list(request.all_dates_flag, request.start_date, request.end_date, feed_dir)

\* the rolling dates have been added to the list
Expanded ==
    /\ pc \notin {"start", "expand"}
    /\ ~(request.all_dates_flag /\ Requested = <<>>)

\* C8: the date list an orchestrator processes is the sorted, duplicate-free
\* union of the requested dates and the target dates of the rolling mapping
\* (sorted as sorted() orders the date strings).
C8_SortedUnionOfDates ==
    Expanded =>
        /\ Range(date_list) = Range(Requested) \cup Keys(mappings)
        /\ \A i, j \in 1..Len(date_list) :
              i < j => (date_list[i] # date_list[j] /\ StrLess(date_list[i], date_list[j]))

\* a rolling target that was requested too and one that was not are both in
\* the expanded list
C8_RequestedTargetOnce ==
    /\ Expanded
    /\ \E k \in Keys(mappings) : k \in Range(Requested)
    /\ \E k \in Keys(mappings) : k \notin Range(Requested)
    /\ Len(date_list) = Cardinality(Range(Requested) \cup Keys(mappings))

\* C9: adding the rolling dates to a list they were already added to leaves
\* the list unchanged.
C9_ExpansionIdempotent ==
    Expanded => add_rolling_dates(date_list, mappings) = date_list

\* the expansion changed the requested list, and is its own fixed point
C9_ExpandedListFixed ==
    /\ Expanded
    /\ has_mappings(mappings)
    /\ date_list # Requested
    /\ Requested # <<>>
    /\ add_rolling_dates(date_list, mappings) = date_list

-----------------------------------------------------------------------------
(* generate_service_reports_orchestrator and                                *)
(* generate_stop_reports_orchestrator after the date list is built.  A file *)
(* of the output is its directory below output_dir (a list of names), its   *)
(* name, and the date whose report was written to it (None for a page that  *)
(* is for no single date); writing to a path replaces what was there.       *)

MaxRollingDates == 1

File(dir, stem, ext, for_date) ==
    [dir |-> dir, name |-> [stem |-> stem, ext |-> ext], date |-> for_date]

\* open(path, 'w') and the write
Write(fs, file) ==
    {f \in fs : ~(f.dir = file.dir /\ f.name = file.name)} \cup {file}

RECURSIVE WriteAll(_, _)
WriteAll(fs, list) ==
    IF list = <<>> THEN fs ELSE WriteAll(Write(fs, Head(list)), Tail(list))

\* rolling_config.get_source_date(date), its result tested with "if"
get_source_date(dict, d) == DictGet(dict, d, None)

\* the date whose services are looked up for a date of the list
QueryDate(dict, d) ==
    IF Truthy(get_source_date(dict, d)) THEN get_source_date(dict, d) ELSE d

\* the exception load_routes ends with, "" for a normal return: the except
\* clauses raise again the FileNotFoundError of a missing file and the
\* KeyError of row['route_id'] or row['route_short_name'] under a header
\* without the column
load_routes_raises(feed) ==
    IF feed.routes.status = "missing" THEN "FileNotFoundError"
    ELSE IF /\ Len(feed.routes.rows) > 0
            /\ \E c \in {"route_id", "route_short_name"} : Index(feed.routes.header, c) = 0
    THEN "KeyError"
    ELSE ""

\* a mutant of unique_services: the services of a rolling date are looked up
\* on the date itself
unique_services_of_targets(feed, list, dict) ==
    UNION {Range(get_active_services(feed, list[i])) : i \in 1..Len(list)}

\* unique_services: the services active on a date to query, the source date
\* of a rolling date
unique_services(feed, list, dict) ==
    LET dates_to_query == {QueryDate(dict, list[i]) : i \in 1..Len(list)}
    IN  UNION {Range(get_active_services(feed, d)) : d \in dates_to_query}

\* all_trips: the trips of every service active on a date to query
all_trips(feed, list, dict) ==
    get_trips_for_services(feed, unique_services(feed, list, dict))

\* all_trip_ids
TripIdsOf(trips) ==
    {t.trip_id : t \in Range(Concat([i \in 1..Len(trips) |-> trips[i].value]))}

\* the static data, the trips and the stop times are loaded, each loader
\* called once; what a loader raises leaves the orchestrator.  No page is
\* written for a trip, since no service extractor has the
\* get_trip_name_from_trip_id the loop calls
Preload ==
    /\ pc = "preload"
    /\ LET services == unique_services(feed_dir, date_list, mappings)
           trips == all_trips(feed_dir, date_list, mappings)
           raised ==
               IF get_all_stops(feed_dir) = <<>> THEN "ValueError"
               ELSE IF load_routes_raises(feed_dir) # "" THEN load_routes_raises(feed_dir)
               ELSE IF get_trips_for_services_raises(feed_dir, services) # ""
               THEN get_trips_for_services_raises(feed_dir, services)
               ELSE get_stops_for_trips_raises(feed_dir, TripIdsOf(trips))
       IN  IF raised # ""
           THEN pc' = raised /\ UNCHANGED <<retval, calls, cursor>>
           ELSE /\ pc' = "dates"
                /\ cursor' = 1
                /\ retval' = [all_trips |-> trips,
                              all_stops_for_trips |->
                                  get_stops_for_trips(feed_dir, TripIdsOf(trips))]
                /\ calls' = calls \o
                       << [fn |-> "get_trips_for_services", arg |-> services],
                          [fn |-> "get_stops_for_trips", arg |-> TripIdsOf(trips)] >>
    /\ UNCHANGED <<faults, feed_dir, date, active_services, args, stop_arrivals, request,
                   mappings, date_list, date_dir, files, config_path, config_file, entry>>

\* the services of a date of the list: its own, or those of its source date
ServicesOf(d) ==
    get_active_services(feed_dir,
        IF d \in Keys(mappings) THEN get_source_date(mappings, d) ELSE d)

\* one turn of "for current_date in date_list": the pages of the services
\* that have trips, then the day index.  The trips and stop times of the
\* date are filtered from what Preload loaded.  A service in faults raises
\* when its page is written: the error is logged and the loop goes on.
\* date_dir is assigned in the loop over the services only; the day index is
\* written to date_dir as it then is, and not at all (NameError, caught)
\* while date_dir is unbound
ProcessDate ==
    /\ pc = "dates"
    /\ cursor <= Len(date_list)
    /\ LET current_date == date_list[cursor]
           active == ServicesOf(current_date)
           trips == SelectSeq(retval.all_trips, LAMBDA e : e.key \in Range(active))
           stops_for_trips ==
               SelectSeq(retval.all_stops_for_trips,
                         LAMBDA e : e.key \in TripIdsOf(trips))
           written == SelectSeq(trips, LAMBDA e : e.key \notin faults)
           pages == [i \in 1..Len(written) |->
                        File(<<current_date>>, written[i].key, ".html", current_date)]
           dir == IF trips = <<>> THEN date_dir ELSE <<current_date>>
           index == IF dir = Unbound THEN <<>>
                    ELSE <<File(dir, "index", ".html", current_date)>>
       IN  /\ date' = current_date
           /\ active_services' = active
           /\ IF active = <<>>
              THEN date_dir' = date_dir /\ files' = files /\ calls' = calls
              ELSE /\ date_dir' = dir
                   /\ files' = WriteAll(files, pages \o index)
                   /\ calls' = Append(calls, [fn |-> "date", date |-> current_date,
                                              trips |-> trips,
                                              stops_for_trips |-> stops_for_trips])
    /\ cursor' = cursor + 1
    /\ UNCHANGED <<faults, retval, feed_dir, args, stop_arrivals, request, mappings, date_list,
                   pc, config_path, config_file, entry>>

\* all_generated_dates: the dates of the list that had an active service
all_generated_dates == SelectSeq(date_list, LAMBDA d : ServicesOf(d) # <<>>)

\* the feed-level index, once the dates are done
FeedIndex ==
    /\ pc = "dates"
    /\ cursor > Len(date_list)
    /\ files' = IF all_generated_dates # <<>>
                THEN Write(files, File(<<>>, "index", ".html", None)) ELSE files
    /\ pc' = "done"
    /\ UNCHANGED <<calls, faults, retval, feed_dir, date, active_services, args, stop_arrivals, request,
                   mappings, date_list, cursor, date_dir, config_path,
                   config_file, entry>>

\* source_to_targets: the rolling dates of the list by source date
RECURSIVE source_to_targets(_, _)
source_to_targets(list, dict) ==
    IF list = <<>> THEN <<>>
    ELSE LET d == list[Len(list)]
             before == source_to_targets(SubSeq(list, 1, Len(list) - 1), dict)
         IN  IF Truthy(get_source_date(dict, d))
             THEN DictAppend(before, get_source_date(dict, d), d)
             ELSE before

\* a mutant of process_args: the rolling dates are left out
process_args_normal_only(list, dict, numeric_stop_code) ==
    LET normal_dates == SelectSeq(list, LAMBDA d : ~Truthy(get_source_date(dict, d)))
    IN  [i \in 1..Len(normal_dates) |->
            [target_date |-> normal_dates[i], numeric_stop_code |-> numeric_stop_code,
             source_date |-> None]]

\* process_args: the normal dates, then the rolling dates source by source
process_args(list, dict, numeric_stop_code) ==
    LET normal_dates == SelectSeq(list, LAMBDA d : ~Truthy(get_source_date(dict, d)))
        grouped == source_to_targets(list, dict)
    IN  [i \in 1..Len(normal_dates) |->
            [target_date |-> normal_dates[i], numeric_stop_code |-> numeric_stop_code,
             source_date |-> None]]
        \o Concat([i \in 1..Len(grouped) |->
               [j \in 1..Len(grouped[i].value) |->
                   [target_date |-> grouped[i].value[j],
                    numeric_stop_code |-> numeric_stop_code,
                    source_date |-> grouped[i].key]]])

BuildArgs ==
    /\ pc = "args"
    /\ args' = process_args(date_list, mappings, request.numeric_stop_code)
    /\ stop_arrivals' = <<>>
    /\ cursor' = 1
    /\ pc' = "pool"
    /\ UNCHANGED <<calls, faults, retval, feed_dir, date, active_services, request, mappings, date_list,
                   date_dir, files, config_path, config_file, entry>>

\* results: process_stop_date of each argument, in the order of the
\* arguments (a list comprehension, or Pool.map, which keeps that order)
RunStopDate ==
    /\ pc = "pool"
    /\ cursor <= Len(args)
    /\ stop_arrivals' =
           Append(stop_arrivals,
                  [date |-> args[cursor].target_date,
                   stop_arrivals |->
                       process_stop_date(feed_dir, args[cursor].target_date,
                                         args[cursor].numeric_stop_code,
                                         args[cursor].source_date)])
    /\ cursor' = cursor + 1
    /\ UNCHANGED <<calls, faults, retval, feed_dir, date, active_services, args, request, mappings,
                   date_list, pc, date_dir, files, config_path, config_file, entry>>

\* "stops", the directory of the stop reports
StopsDir == <<115, 116, 111, 112, 115>>

\* the file name of a stop code: its digits without leading zeros, or the
\* code itself when it has no digit
normalized_code(stop_code) ==
    IF SelectSeq(stop_code, IsDigit) # <<>>
    THEN DigitsOf(IntOfDigits(SelectSeq(stop_code, IsDigit)))
    ELSE stop_code

\* the files of one result; none for a date without boards
StopFiles(result) ==
    {File(<<StopsDir, result.date>>, normalized_code(c), ".json", result.date) :
        c \in DOMAIN result.stop_arrivals}

\* "for date, stop_arrivals in results": a file per stop code and date.
\* Two files of the same path are for the same date, so the order of the
\* writes does not show in the paths
WriteResults ==
    /\ pc = "pool"
    /\ cursor > Len(args)
    /\ files' = files \cup UNION {StopFiles(stop_arrivals[i]) : i \in 1..Len(stop_arrivals)}
    /\ pc' = "done"
    /\ UNCHANGED <<calls, faults, retval, feed_dir, date, active_services, args, stop_arrivals, request,
                   mappings, date_list, cursor, date_dir, config_path,
                   config_file, entry>>

InitReports ==
    /\ pc = "start"
    /\ feed_dir \in ReportFeeds
    /\ request \in Requests
    /\ mappings \in {dict \in RollingMappings : Len(dict) <= MaxRollingDates}
    /\ Idle

NextReports ==
    \/ GetDateList
    \/ ExpandDateList
    \/ Preload
    \/ ProcessDate
    \/ FeedIndex
    \/ BuildArgs
    \/ RunStopDate
    \/ WriteResults

SpecReports == InitReports /\ [][NextReports]_vars

-----------------------------------------------------------------------------
(* Claims about the files of the reports.                                   *)

\* C7: every file generated for a date D (service pages, day index, stop
\* boards) is in the directory named for D (D for the service report,
\* stops/D for the stop report), never in the directory of another date.
C7_FilesUnderOwnDate ==
    \A f \in files :
        f.date # None =>
            f.dir = (IF request.report = "services"
                     THEN <<f.date>> ELSE <<StopsDir, f.date>>)

-----------------------------------------------------------------------------
(* get_stops_for_trips on its own: stop_times.txt in every row order.       *)

MaxSequenceRows == 3

\* rows of stop_times.txt for trip T1 with the sequences 10, 2 and 7, a
\* row of trip T2, a row whose stop_sequence is no number, and a row cut
\* short before its stop_sequence
SequenceRows ==
    { StopTimeRow("T1", TimeStr(8, 0, 0), "A", 10),
      StopTimeRow("T1", TimeStr(8, 5, 0), "B", 2),
      StopTimeRow("T1", TimeStr(8, 9, 0), "C", 7),
      StopTimeRow("T2", TimeStr(9, 0, 0), "A", 1),
      <<"T1", TimeStr(8, 7, 0), TimeStr(8, 7, 0), "B", <<120>>>>,
      <<"T2", TimeStr(9, 5, 0), TimeStr(9, 5, 0), "B">> }

\* a header of stop_times.txt that lacks the stop_sequence column
StopTimesHeaderShort == SubSeq(StopTimesHeader, 1, 4)

StopTimesTables ==
    {Missing, Table(StopTimesHeaderShort, <<>>)}
    \cup {Table(StopTimesHeader, rows) : rows \in SeqsUpTo(SequenceRows, MaxSequenceRows)}

\* the variables a call of a single function leaves alone
Quiet ==
    /\ date = None
    /\ active_services = <<>>
    /\ stop_arrivals = None
    /\ request = None
    /\ mappings = None
    /\ date_list = <<>>
    /\ cursor = 0
    /\ date_dir = Unbound
    /\ files = {}
    /\ config_path = None
    /\ config_file = None
    /\ entry = 0
    /\ calls = <<>>
    /\ faults = {}

InitStopTimes ==
    /\ pc = "call"
    /\ feed_dir \in [calendar : {Missing}, calendar_dates : {Missing},
                     stops : {StopsTable}, trips : {TripsTable},
                     stop_times : StopTimesTables]
    /\ args \in SUBSET {"T1", "T2"}
    /\ retval = None
    /\ Quiet

\* the call get_stops_for_trips(feed_dir, trip_ids) and its return or raise
GetStopsForTrips ==
    /\ pc = "call"
    /\ IF get_stops_for_trips_raises(feed_dir, args) # ""
       THEN pc' = get_stops_for_trips_raises(feed_dir, args) /\ retval' = retval
       ELSE pc' = "return" /\ retval' = get_stops_for_trips(feed_dir, args)
    /\ UNCHANGED <<calls, faults, feed_dir, date, active_services, args, stop_arrivals, request,
                   mappings, date_list, cursor, date_dir, files, config_path,
                   config_file, entry>>

NextStopTimes == GetStopsForTrips

SpecStopTimes == InitStopTimes /\ [][NextStopTimes]_vars

\* the rows of the file that belong to a trip and have a stop_sequence
\* int() accepts, in file order
RowsOfTrip(trip_id) ==
    SelectSeq(feed_dir.stop_times.rows,
              LAMBDA row : row[1] = trip_id /\ Len(row) = 5 /\ ParseInt(row[5]).ok)

\* C11: every trip of the result of get_stops_for_trips has its stop times
\* in ascending order of stop_sequence, and they are the stop times of its
\* rows of stop_times.txt, whatever the order of the rows and whatever the
\* sequence numbers.
C11_SortedByStopSequence ==
    pc = "return" =>
        \A k \in 1..Len(retval) :
            LET list == retval[k].value
            IN  /\ \A i, j \in 1..Len(list) :
                      i < j => list[i].stop_sequence <= list[j].stop_sequence
                /\ Len(list) = Len(RowsOfTrip(retval[k].key))
                /\ {list[i].stop_sequence : i \in 1..Len(list)}
                       = {ParseInt(row[5]).val : row \in Range(RowsOfTrip(retval[k].key))}

\* a trip whose rows are in the file out of order, with sequence numbers
\* that have gaps and do not start at zero, has been returned
C11_ReorderedTripReturned ==
    /\ pc = "return"
    /\ \E k \in 1..Len(retval) :
          LET rows == RowsOfTrip(retval[k].key)
          IN  /\ Len(rows) >= 2
              /\ ParseInt(rows[1][5]).val > ParseInt(rows[2][5]).val
              /\ Len(retval[k].value) = Len(rows)

-----------------------------------------------------------------------------
(* get_trips_for_services on its own.                                       *)

MaxTripRows == 3

\* rows of trips.txt: two trips of S1, one of S2, one of S3 without a
\* direction, a line of S1 cut short, and a trip of S2 whose direction_id
\* is no number
TripRowsOfFile ==
    { <<"R1", "S1", "T1", "Centro", <<48>>>>,
      <<"R2", "S1", "T2", "Centro", <<49>>>>,
      <<"R1", "S2", "T3", "Centro", <<48>>>>,
      <<"R1", "S3", "T4", "Centro", <<>>>>,
      <<"R1", "S1", "T5">>,
      <<"R1", "S2", "T6", "Centro", <<120>>>> }

\* a header of trips.txt that lacks the direction_id column
TripsHeaderShort == SubSeq(TripsHeader, 1, 4)

TripsTables ==
    {Missing, Table(TripsHeaderShort, << <<"R1", "S1", "T1", "Centro">> >>)}
    \cup {Table(TripsHeader, rows) : rows \in SeqsUpTo(TripRowsOfFile, MaxTripRows)}

InitTrips ==
    /\ pc = "call"
    /\ feed_dir \in [calendar : {Missing}, calendar_dates : {Missing},
                     stops : {StopsTable}, trips : TripsTables,
                     stop_times : {Missing}]
    /\ args \in SUBSET {"S1", "S2", "S3"}
    /\ retval = None
    /\ Quiet

\* the call get_trips_for_services(feed_dir, service_ids) and its return or
\* raise
GetTripsForServices ==
    /\ pc = "call"
    /\ IF get_trips_for_services_raises(feed_dir, args) # ""
       THEN pc' = get_trips_for_services_raises(feed_dir, args) /\ retval' = retval
       ELSE pc' = "return" /\ retval' = get_trips_for_services(feed_dir, args)
    /\ UNCHANGED <<calls, faults, feed_dir, date, active_services, args, stop_arrivals, request,
                   mappings, date_list, cursor, date_dir, files, config_path,
                   config_file, entry>>

NextTrips == GetTripsForServices

SpecTrips == InitTrips /\ [][NextTrips]_vars

\* the rows of trips.txt (lines with a field for every column, under a
\* header with the five columns) of one service, in file order
RowsOfService(service_id) ==
    IF feed_dir.trips.status = "missing" \/ feed_dir.trips.header # TripsHeader THEN <<>>
    ELSE SelectSeq(feed_dir.trips.rows,
                   LAMBDA row : Len(row) >= 5 /\ row[2] = service_id)

\* C12: get_trips_for_services returns exactly the rows of trips.txt whose
\* service_id was asked for, each under its own service_id, the trips of a
\* service in the order of their rows.
C12_TripsOfRequestedServices ==
    pc = "return" =>
        /\ Keys(retval) = {s \in args : RowsOfService(s) # <<>>}
        /\ \A k \in 1..Len(retval) :
              LET rows == RowsOfService(retval[k].key)
                  list == retval[k].value
              IN  /\ Len(list) = Len(rows)
                  /\ \A i \in 1..Len(list) :
                        /\ list[i].trip_id = rows[i][3]
                        /\ list[i].route_id = rows[i][1]
                        /\ list[i].service_id = retval[k].key

\* a service with two trips and a service that was not asked for
C12_TwoTripsInFileOrder ==
    /\ pc = "return"
    /\ \E k \in 1..Len(retval) : Len(retval[k].value) >= 2
    /\ \E row \in Range(feed_dir.trips.rows) : Len(row) >= 5 /\ row[2] \notin args

-----------------------------------------------------------------------------
(* normalize_gtfs_time and the two time_to_seconds on their own.            *)

MaxHour == 49

\* texts that are no HH:MM:SS: nothing, None, "12:00", "01:02:03:04",
\* "12:xx:00", "::", " 25:00:00", "25:5:7" and "8:00:00"
OtherTimes ==
    { <<>>, None,
      <<49, 50, Colon, 48, 48>>,
      <<48, 49, Colon, 48, 50, Colon, 48, 51, Colon, 48, 52>>,
      <<49, 50, Colon, 120, 120, Colon, 48, 48>>,
      <<Colon, Colon>>,
      <<32, 50, 53, Colon, 48, 48, Colon, 48, 48>>,
      <<50, 53, Colon, 53, Colon, 55>>,
      <<56, Colon, 48, 48, Colon, 48, 48>> }

TimeInputs ==
    {TimeStr(h, m, sec) : h \in 0..MaxHour, m \in {0, 30, 59}, sec \in {0, 59}}
    \cup OtherTimes

TimeFunctions == {"normalize_gtfs_time", "utils.time_to_seconds", "common.time_to_seconds"}

InitTimes ==
    /\ pc = "call"
    /\ request \in TimeFunctions
    /\ args \in TimeInputs
    /\ retval = None
    /\ feed_dir = NoFeed
    /\ date = None
    /\ active_services = <<>>
    /\ stop_arrivals = None
    /\ mappings = None
    /\ date_list = <<>>
    /\ cursor = 0
    /\ date_dir = Unbound
    /\ files = {}
    /\ config_path = None
    /\ config_file = None
    /\ entry = 0
    /\ calls = <<>>
    /\ faults = {}

NormalizeGtfsTime ==
    /\ pc = "call"
    /\ request = "normalize_gtfs_time"
    /\ retval' = normalize_gtfs_time(args)
    /\ pc' = "return"
    /\ UNCHANGED <<calls, faults, feed_dir, date, active_services, args, stop_arrivals, request,
                   mappings, date_list, cursor, date_dir, files, config_path,
                   config_file, entry>>

\* time_to_seconds of src/src/utils.py
TimeToSeconds ==
    /\ pc = "call"
    /\ request = "utils.time_to_seconds"
    /\ retval' = time_to_seconds(args)
    /\ pc' = "return"
    /\ UNCHANGED <<calls, faults, feed_dir, date, active_services, args, stop_arrivals, request,
                   mappings, date_list, cursor, date_dir, files, config_path,
                   config_file, entry>>

\* time_to_seconds of src/src/common.py
CommonTimeToSeconds ==
    /\ pc = "call"
    /\ request = "common.time_to_seconds"
    /\ IF common_time_to_seconds_raises(args) # ""
       THEN pc' = common_time_to_seconds_raises(args) /\ retval' = retval
       ELSE pc' = "return" /\ retval' = common_time_to_seconds(args)
    /\ UNCHANGED <<calls, faults, feed_dir, date, active_services, args, stop_arrivals, request,
                   mappings, date_list, cursor, date_dir, files, config_path,
                   config_file, entry>>

NextTimes == NormalizeGtfsTime \/ TimeToSeconds \/ CommonTimeToSeconds

SpecTimes == InitTimes /\ [][NextTimes]_vars

\* a well-formed HH:MM:SS: two or more digits of hours, two of minutes and
\* two of seconds, minutes and seconds below 60
WellFormedTime(s) ==
    /\ s # None
    /\ Len(s) >= 8
    /\ s[Len(s) - 5] = Colon /\ s[Len(s) - 2] = Colon
    /\ \A i \in 1..Len(s) : i \notin {Len(s) - 5, Len(s) - 2} => IsDigit(s[i])
    /\ IntOfDigits(SubSeq(s, Len(s) - 4, Len(s) - 3)) < 60
    /\ IntOfDigits(SubSeq(s, Len(s) - 1, Len(s))) < 60

HoursOf(s) == IntOfDigits(SubSeq(s, 1, Len(s) - 6))
MinutesOf(s) == IntOfDigits(SubSeq(s, Len(s) - 4, Len(s) - 3))
SecondsOf(s) == IntOfDigits(SubSeq(s, Len(s) - 1, Len(s)))

\* the text with its hours replaced, minutes and seconds kept
WithHours(s, h) == Format0(h, 2) \o SubSeq(s, Len(s) - 5, Len(s))

\* empty or unparseable: nothing, None, not three fields between colons,
\* or a field that is empty or holds a character no number has
UnparseableTime(s) ==
    \/ s = None
    \/ s = <<>>
    \/ Len(SelectSeq(s, LAMBDA c : c = Colon)) # 2
    \/ \E part \in Range(Split(s, Colon)) :
          part = <<>> \/ \E i \in 1..Len(part) : part[i] \notin (48..57) \cup {32, 43, Dash}

C14_SecondsOrZero ==
    (/\ request \in {"utils.time_to_seconds", "common.time_to_seconds"}
     /\ args # None
     /\ pc # "call") =>
        /\ pc = "return"
        /\ WellFormedTime(args) =>
              retval = HoursOf(args) * 3600 + MinutesOf(args) * 60 + SecondsOf(args)
        /\ UnparseableTime(args) => retval = 0

\* the same statement for time_to_seconds of src/src/utils.py alone
C14_UtilsSecondsOrZero ==
    (request = "utils.time_to_seconds" /\ pc # "call") =>
        /\ pc = "return"
        /\ WellFormedTime(args) =>
              retval = HoursOf(args) * 3600 + MinutesOf(args) * 60 + SecondsOf(args)
        /\ UnparseableTime(args) => retval = 0

-----------------------------------------------------------------------------
(* The service extractors (src/src/service_extractor).  An identifier is a  *)
(* str, line feeds excluded: it is a field of a line of trips.txt.          *)

Underscore == 95

\* a mutant of the Lcg extractor: it drops five characters
lcg_extract_drop_five(service_identifier) ==
    IF Len(service_identifier) < 7 THEN None
    ELSE SubSeq(service_identifier, 1, Len(service_identifier) - 5)

\* LcgMunicipalServiceExtractor.extract_service_name_from_identifier, when
\* it returns
lcg_extract_service_name_from_identifier(service_identifier) ==
    IF Len(service_identifier) < 7 THEN None
    ELSE SubSeq(service_identifier, 1, Len(service_identifier) - 6)

\* the exception it ends with, "" for a normal return
lcg_extract_service_name_raises(service_identifier) ==
    IF service_identifier = <<>> \/ Len(service_identifier) < 7 THEN "ValueError" ELSE ""

\* the last six characters when they are digits behind an underscore, as
\* the group of .*_([0-9]{6})$ ; <<>> when the pattern does not match
SixDigitGroup(s) ==
    IF /\ Len(s) >= 7
       /\ s[Len(s) - 6] = Underscore
       /\ AllDigits(SubSeq(s, Len(s) - 5, Len(s)))
    THEN SubSeq(s, Len(s) - 5, Len(s)) ELSE <<>>

\* _SERVICE_ID_PATTERN.match(s) and _SERVICE_NAME_PATTERN.match(s): the
\* second wants a character before the underscore
SERVICE_ID_PATTERN(s) == SixDigitGroup(s)
SERVICE_NAME_PATTERN(s) == IF Len(s) >= 8 THEN SixDigitGroup(s) ELSE <<>>

\* _LINE_NAME_MAP
LINE_NAME_MAP ==
    << [key |-> 1, value |-> <<67, 49>>],
       [key |-> 3, value |-> <<67, 51>>],
       [key |-> 30, value |-> <<78, 49>>],
       [key |-> 33, value |-> <<78, 52>>],
       [key |-> 8, value |-> <<65>>],
       [key |-> 101, value |-> <<72>>],
       [key |-> 150, value |-> <<82, 69, 70>>],
       [key |-> 500, value |-> <<84, 85, 82>>] >>

\* get_actual_line_name: the name of the map, else "L" and the number
get_actual_line_name(line_number) ==
    DictGet(LINE_NAME_MAP, line_number, <<76>> \o DigitsOf(line_number))

\* a mutant of the Vgo extractor: six final digits with no underscore
vgo_extract_any_six_digits(service_identifier) ==
    IF /\ Len(service_identifier) >= 6
       /\ AllDigits(SubSeq(service_identifier, Len(service_identifier) - 5,
                           Len(service_identifier)))
    THEN SubSeq(service_identifier, Len(service_identifier) - 5, Len(service_identifier))
    ELSE service_identifier

\* VgoMunicipalServiceExtractor.extract_actual_service_id_from_identifier
vgo_extract_actual_service_id_from_identifier(service_identifier) ==
    IF SERVICE_ID_PATTERN(service_identifier) # <<>>
    THEN SERVICE_ID_PATTERN(service_identifier)
    ELSE service_identifier

\* VgoMunicipalServiceExtractor.extract_service_name_from_identifier:
\* f"{line_number_name}-{shift_code}.. ({service_code})", the two characters
\* after the shift as the source file has them
vgo_extract_service_name_from_identifier(service_identifier) ==
    LET service_code == SERVICE_NAME_PATTERN(service_identifier)
        line_number == IntOfDigits(SubSeq(service_code, 1, 3))
        shift_code == IntOfDigits(SubSeq(service_code, 4, 6))
    IN  IF service_code = <<>> THEN service_identifier
        ELSE get_actual_line_name(line_number) \o <<Dash>> \o DigitsOf(shift_code)
             \o <<3618, 3610, 32, 40>> \o service_code \o <<41>>

MaxIdLength == 8

\* "100010731", "C1 01LPV00_001001" and "12345"
SampleIdentifiers ==
    { <<49, 48, 48, 48, 49, 48, 55, 51, 49>>,
      <<67, 49, 32, 48, 49, 76, 80, 86, 48, 48, 95, 48, 48, 49, 48, 48, 49>>,
      <<49, 50, 51, 52, 53>> }

\* every text of "0", "1" and "_" up to a length, and the samples
Identifiers == SeqsUpTo({48, 49, Underscore}, MaxIdLength) \cup SampleIdentifiers

ExtractorMethods ==
    {"Lcg.extract_service_name", "Vgo.extract_service_name", "Vgo.extract_actual_service_id"}

InitExtractors ==
    /\ pc = "call"
    /\ request \in ExtractorMethods
    /\ args \in Identifiers
    /\ retval = None
    /\ feed_dir = NoFeed
    /\ date = None
    /\ active_services = <<>>
    /\ stop_arrivals = None
    /\ mappings = None
    /\ date_list = <<>>
    /\ cursor = 0
    /\ date_dir = Unbound
    /\ files = {}
    /\ config_path = None
    /\ config_file = None
    /\ entry = 0
    /\ calls = <<>>
    /\ faults = {}

LcgExtractServiceName ==
    /\ pc = "call"
    /\ request = "Lcg.extract_service_name"
    /\ IF lcg_extract_service_name_raises(args) # ""
       THEN pc' = lcg_extract_service_name_raises(args) /\ retval' = retval
       ELSE pc' = "return" /\ retval' = lcg_extract_service_name_from_identifier(args)
    /\ UNCHANGED <<calls, faults, feed_dir, date, active_services, args, stop_arrivals, request,
                   mappings, date_list, cursor, date_dir, files, config_path,
                   config_file, entry>>

VgoExtractServiceName ==
    /\ pc = "call"
    /\ request = "Vgo.extract_service_name"
    /\ retval' = vgo_extract_service_name_from_identifier(args)
    /\ pc' = "return"
    /\ UNCHANGED <<calls, faults, feed_dir, date, active_services, args, stop_arrivals, request,
                   mappings, date_list, cursor, date_dir, files, config_path,
                   config_file, entry>>

VgoExtractActualServiceId ==
    /\ pc = "call"
    /\ request = "Vgo.extract_actual_service_id"
    /\ retval' = vgo_extract_actual_service_id_from_identifier(args)
    /\ pc' = "return"
    /\ UNCHANGED <<calls, faults, feed_dir, date, active_services, args, stop_arrivals, request,
                   mappings, date_list, cursor, date_dir, files, config_path,
                   config_file, entry>>

NextExtractors == LcgExtractServiceName \/ VgoExtractServiceName \/ VgoExtractActualServiceId

SpecExtractors == InitExtractors /\ [][NextExtractors]_vars

\* C17: the Lcg extractor returns the identifier without its last 6
\* characters when it has at least 7, and raises, returning nothing, when
\* it has fewer.
C17_LcgDropsLastSix ==
    (request = "Lcg.extract_service_name" /\ pc # "call") =>
        IF Len(args) >= 7
        THEN /\ pc = "return"
             /\ retval \o SubSeq(args, Len(args) - 5, Len(args)) = args
        ELSE pc = "ValueError" /\ retval = None

\* "100010731" has given "100"
C17_LcgSample ==
    /\ request = "Lcg.extract_service_name"
    /\ pc = "return"
    /\ args = <<49, 48, 48, 48, 49, 48, 55, 51, 49>>
    /\ retval = <<49, 48, 48>>

\* s holds the text t somewhere
Contains(s, t) == \E i \in 0..(Len(s) - Len(t)) : SubSeq(s, i + 1, i + Len(t)) = t

\* the identifier ends in "_001001": line 001, shift 001
EndsInLine1Shift1(s) ==
    /\ Len(s) > 7
    /\ SubSeq(s, Len(s) - 6, Len(s)) = <<Underscore, 48, 48, 49, 48, 48, 49>>

\* C18: for an identifier that ends in an underscore and the six digits of
\* line 001 and shift 001, the Vgo extractor returns a name that holds the
\* line label "L1" and the shift number 1.
C18_VgoLine1Shift1 ==
    (request = "Vgo.extract_service_name" /\ pc # "call" /\ EndsInLine1Shift1(args)) =>
        /\ pc = "return"
        /\ Contains(retval, <<76, 49>>)
        /\ Contains(retval, <<49>>)

\* the identifier ends in an underscore followed by exactly six digits
EndsInSixDigits(s) ==
    /\ Len(s) >= 7
    /\ s[Len(s) - 6] = Underscore
    /\ \A i \in (Len(s) - 5)..Len(s) : IsDigit(s[i])

-----------------------------------------------------------------------------
(* The services of one date (src/src/orchestrators.py, the loop over the    *)
(* active services with trips) and get_service_report_data.                 *)
(* request is the extractor, args the dict trips of the date (raw           *)
(* service_id -> trips, in the order of trips.txt), cursor the number of    *)
(* services the loop has done, retval generated_services, files the pages.  *)

\* get_service_extractor_class: the names of the three classes
Extractors == {"default", "lcg_muni", "vgo_muni"}

\* service_extractor_class.extract_actual_service_id_from_identifier: only
\* the Vgo class overrides the method that returns its input; no class has
\* a branch of it that raises
extract_actual_service_id_from_identifier(extractor, service_id) ==
    IF extractor = "vgo_muni" THEN vgo_extract_actual_service_id_from_identifier(service_id)
    ELSE service_id

\* the exception extract_service_name_from_identifier ends with, "" for none
extract_service_name_raises(extractor, service_id) ==
    IF extractor = "lcg_muni" THEN lcg_extract_service_name_raises(service_id) ELSE ""

\* service_extractor_class.extract_service_name_from_identifier, returning
extract_service_name_from_identifier(extractor, service_id) ==
    IF extractor = "lcg_muni" THEN lcg_extract_service_name_from_identifier(service_id)
    ELSE IF extractor = "vgo_muni" THEN vgo_extract_service_name_from_identifier(service_id)
    ELSE service_id

\* a mutant of guarded_service_name: no except branch, the result left unset
unguarded_service_name(extractor, service_id) ==
    extract_service_name_from_identifier(extractor, service_id)

\* try: service_name = extract_service_name_from_identifier(service_id)
\* except Exception: service_name = service_id
guarded_service_name(extractor, service_id) ==
    IF extract_service_name_raises(extractor, service_id) # "" THEN service_id
    ELSE extract_service_name_from_identifier(extractor, service_id)

MaxServices == 3

\* "A_001001", "B_001001", "A_002001" and "12345"
RawServiceIds ==
    { <<65, 95, 48, 48, 49, 48, 48, 49>>, <<66, 95, 48, 48, 49, 48, 48, 49>>,
      <<65, 95, 48, 48, 50, 48, 48, 49>>, <<49, 50, 51, 52, 53>> }

\* the trips of each service in trips.txt
TripListOf(service_id) ==
    IF service_id = <<65, 95, 48, 48, 49, 48, 48, 49>> THEN <<"T1">>
    ELSE IF service_id = <<66, 95, 48, 48, 49, 48, 48, 49>> THEN <<"T2", "T3">>
    ELSE IF service_id = <<65, 95, 48, 48, 50, 48, 48, 49>> THEN <<"T4">>
    ELSE <<"T5">>

\* the dicts of up to MaxServices distinct services, in every order
TripDicts ==
    { [i \in 1..Len(ids) |-> [key |-> ids[i], value |-> TripListOf(ids[i])]] :
        ids \in {s \in SeqsUpTo(RawServiceIds, MaxServices) :
                    \A i, j \in 1..Len(s) : i # j => s[i] # s[j]} }

ReportDate == "2025-06-30"

\* write_service_html(file_path, feed_dir, actual_service_id, trip_list, ...)
\* with file_path = date_dir/<stem>.html
ServicePage(stem, actual_service_id, trip_list) ==
    [dir |-> ReportDate, name |-> [stem |-> stem, ext |-> "html"],
     service |-> actual_service_id, trips |-> trip_list]

\* date_dir/index.html; the services it lists are generated_services
DayIndexPage == ServicePage(<<105, 110, 100, 101, 120>>, None, <<>>)

\* the entry of generated_services.append; the lines and the first and last
\* times of the entry are left out
generated_service(extractor, service_id, trip_list) ==
    [service_id |-> extract_actual_service_id_from_identifier(extractor, service_id),
     service_name |-> guarded_service_name(extractor, service_id),
     number_of_trips |-> Len(trip_list),
     filename |-> extract_actual_service_id_from_identifier(extractor, service_id)
                  \o <<46, 104, 116, 109, 108>>]

\* get_service_report_data, first loop: grouped_trips, service_id_to_name and
\* canonical_to_original_ids in one dict keyed by the canonical id
RECURSIVE GroupTrips(_, _, _, _)
GroupTrips(trip_lines, i, extractor, grouped) ==
    IF i > Len(trip_lines) THEN grouped
    ELSE LET service_id == trip_lines[i].service_id
             actual_service_id == extract_actual_service_id_from_identifier(extractor, service_id)
             seen == DictGet(grouped, actual_service_id,
                             [name |-> guarded_service_name(extractor, service_id),
                              trips |-> <<>>, ids |-> {}])
         IN  GroupTrips(trip_lines, i + 1, extractor,
                 DictPut(grouped, actual_service_id,
                     [name |-> seen.name,
                      trips |-> Append(seen.trips, trip_lines[i].trip_id),
                      ids |-> seen.ids \cup {service_id}]))

\* sorted(a set of str)
RECURSIVE SortedSet(_)
SortedSet(S) ==
    IF S = {} THEN <<>>
    ELSE LET least == CHOOSE x \in S : \A y \in S : y = x \/ StrLess(x, y)
         IN  <<least>> \o SortedSet(S \ {least})

\* get_service_report_data, second loop: one entry for each group
get_service_report_data(trip_lines, extractor) ==
    LET grouped == GroupTrips(trip_lines, 1, extractor, <<>>)
    IN  [i \in 1..Len(grouped) |->
            [service_id |-> grouped[i].key,
             service_name |-> grouped[i].value.name,
             original_service_ids |-> SortedSet(grouped[i].value.ids),
             trips |-> grouped[i].value.trips,
             number_of_trips |-> Len(grouped[i].value.trips)]]

\* the TripLine objects of a dict of trips, service after service
TripLines(dict) ==
    Concat([i \in 1..Len(dict) |->
               [j \in 1..Len(dict[i].value) |->
                   [service_id |-> dict[i].key, trip_id |-> dict[i].value[j]]]])

InitServicePages ==
    /\ pc \in {"services", "report_data"}
    /\ request \in Extractors
    /\ args \in TripDicts
    /\ retval = <<>>
    /\ cursor = 0
    /\ files = {}
    /\ feed_dir = NoFeed
    /\ date = None
    /\ active_services = <<>>
    /\ stop_arrivals = None
    /\ mappings = None
    /\ date_list = <<>>
    /\ date_dir = Unbound
    /\ config_path = None
    /\ config_file = None
    /\ entry = 0
    /\ calls = <<>>
    /\ faults = {}

\* one turn of "for service_id, trip_list in trips.items()"
ProcessService ==
    /\ pc = "services"
    /\ cursor < Len(args)
    /\ LET service_id == args[cursor + 1].key
           trip_list == args[cursor + 1].value
           actual_service_id == extract_actual_service_id_from_identifier(request, service_id)
       IN  /\ files' = Write(files, ServicePage(actual_service_id, actual_service_id, trip_list))
           /\ retval' = Append(retval, generated_service(request, service_id, trip_list))
    /\ cursor' = cursor + 1
    /\ UNCHANGED <<calls, faults, pc, feed_dir, date, active_services, args, stop_arrivals, request,
                   mappings, date_list, date_dir, config_path, config_file, entry>>

\* the day index, after the last service
WriteDayIndex ==
    /\ pc = "services"
    /\ cursor = Len(args)
    /\ files' = Write(files, DayIndexPage)
    /\ pc' = "done"
    /\ UNCHANGED <<calls, faults, retval, feed_dir, date, active_services, args, stop_arrivals, request,
                   mappings, date_list, cursor, date_dir, config_path, config_file, entry>>

GetServiceReportData ==
    /\ pc = "report_data"
    /\ retval' = get_service_report_data(TripLines(args), request)
    /\ pc' = "return"
    /\ UNCHANGED <<calls, faults, feed_dir, date, active_services, args, stop_arrivals, request,
                   mappings, date_list, cursor, date_dir, files, config_path,
                   config_file, entry>>

NextServicePages == ProcessService \/ WriteDayIndex \/ GetServiceReportData

SpecServicePages == InitServicePages /\ [][NextServicePages]_vars

\* the canonical keys of the date's services, and what belongs to a key
CanonicalKeys ==
    {extract_actual_service_id_from_identifier(request, args[i].key) : i \in 1..Len(args)}

RawIdsOf(k) ==
    {args[i].key : i \in {j \in 1..Len(args) :
        extract_actual_service_id_from_identifier(request, args[j].key) = k}}

TripsOfKey(k) ==
    Concat([i \in 1..Len(args) |->
               IF extract_actual_service_id_from_identifier(request, args[i].key) = k
               THEN args[i].value ELSE <<>>])

EntriesOf(k) == {i \in 1..Len(retval) : retval[i].service_id = k}

\* the entry has the key original_service_ids, with this list
HasOriginalIds(e, ids) ==
    "original_service_ids" \in DOMAIN e /\ e.original_service_ids = ids

\* C15: when the services of a date are done there is exactly one entry and
\* one page for each canonical key, holding the trips of every raw
\* service_id of that key, and the entry's original_service_ids is the
\* sorted set of those raw ids.
C15_OneEntryPerCanonicalKey ==
    pc \in {"done", "return"} =>
        /\ Len(retval) = Cardinality(CanonicalKeys)
        /\ \A k \in CanonicalKeys :
              /\ Cardinality(EntriesOf(k)) = 1
              /\ \A i \in EntriesOf(k) :
                    /\ retval[i].number_of_trips = Len(TripsOfKey(k))
                    /\ HasOriginalIds(retval[i], SortedSet(RawIdsOf(k)))
                    /\ pc = "return" => retval[i].trips = TripsOfKey(k)
              /\ pc = "done" =>
                    Cardinality({f \in files : f.service = k /\ f.trips = TripsOfKey(k)}) = 1

\* get_service_report_data alone keeps the entries of C15
C15_ReportDataGrouped == pc = "return" => C15_OneEntryPerCanonicalKey

\* the extraction of the name raises (C17): the Lcg class on a short id
ExtractionRaises(extractor, service_id) == extractor = "lcg_muni" /\ Len(service_id) < 7

\* C16: a service whose extraction raises is reported with its raw id as
\* canonical id and as name, and the other services of the date are
\* reported with what the extractor gives for them.
C16_RawIdOnExtractionError ==
    /\ pc = "done" =>
          /\ Len(retval) = Len(args)
          /\ \A i \in 1..Len(args) :
                LET r == args[i].key
                IN  /\ retval[i].number_of_trips = Len(args[i].value)
                    /\ \E f \in files : f.name.stem = retval[i].service_id
                    /\ IF ExtractionRaises(request, r)
                       THEN retval[i].service_id = r /\ retval[i].service_name = r
                       ELSE /\ retval[i].service_id =
                                   extract_actual_service_id_from_identifier(request, r)
                            /\ retval[i].service_name =
                                   extract_service_name_from_identifier(request, r)
    /\ pc = "return" =>
          \A i \in 1..Len(args) :
              ExtractionRaises(request, args[i].key) =>
                  \E j \in 1..Len(retval) :
                      /\ retval[j].service_id = args[i].key
                      /\ retval[j].service_name = args[i].key
                      /\ retval[j].trips = args[i].value

\* "12345" was reported under its raw id before a service the Lcg class names
C16_ShortIdThenNamedService ==
    /\ pc = "done"
    /\ request = "lcg_muni"
    /\ Len(args) = 2
    /\ args[1].key = <<49, 50, 51, 52, 53>>
    /\ retval[1].service_id = args[1].key
    /\ retval[1].service_name = args[1].key
    /\ retval[2].service_name = <<65, 95>>

-----------------------------------------------------------------------------
(* The table loaders, each on its own table: load_routes (src/src/routes.py),*)
(* get_trips_for_services, get_stops_for_trips and get_all_stops.  request  *)
(* is the loader that is called, args the ids it is asked for.              *)

\* the loop of load_routes: route_id -> route_short_name and route_color,
\* "000000" for a colour that is not there or empty
RECURSIVE RoutesLoop(_, _, _, _)
RoutesLoop(rows, i, header, routes) ==
    IF i > Len(rows) THEN routes
    ELSE RoutesLoop(rows, i + 1, header,
             DictPut(routes, Field(header, rows[i], "route_id"),
                     [route_short_name |-> Field(header, rows[i], "route_short_name"),
                      route_color |->
                          IF /\ Index(header, "route_color") # 0
                             /\ Truthy(Field(header, rows[i], "route_color"))
                          THEN Field(header, rows[i], "route_color")
                          ELSE <<48, 48, 48, 48, 48, 48>>]))

\* load_routes, when it returns
load_routes(feed) == RoutesLoop(feed.routes.rows, 1, feed.routes.header, <<>>)

MaxRouteRows == 2

\* lines of routes.txt: two whole routes, one without a colour and one cut
\* short after its route_id
RouteRowsOfFile ==
    { <<"R1", <<49>>, <<102, 102, 48, 48, 48, 48>>>>,
      <<"R2", <<50>>, <<48, 48, 102, 102, 48, 48>>>>,
      <<"R3", <<51>>, <<>>>>,
      <<"R4">> }

RoutesTables ==
    {Missing, Table(SubSeq(RoutesHeader, 1, 1), << <<"R1">> >>),
     Table(SubSeq(RoutesHeader, 1, 2), << <<"R1", <<49>>>> >>)}
    \cup {Table(RoutesHeader, rows) : rows \in SeqsUpTo(RouteRowsOfFile, MaxRouteRows)}

\* stops.txt missing, whole, and with a line cut short after its stop_id
StopsTables ==
    {Missing, StopsTable,
     Table(StopsHeader, << <<"A", <<49, 50>>>>, <<"B">>, <<"C", <<48, 55>>>> >>)}

Loaders == {"load_routes", "get_trips_for_services", "get_stops_for_trips", "get_all_stops"}

\* the feeds that differ from the whole feed in the table the loader reads
LoaderFeeds(loader) ==
    [calendar : {Missing}, calendar_dates : {Missing},
     stops : IF loader = "get_all_stops" THEN StopsTables ELSE {StopsTable},
     trips : IF loader = "get_trips_for_services" THEN TripsTables ELSE {TripsTable},
     stop_times : IF loader = "get_stops_for_trips" THEN StopTimesTables ELSE {Missing},
     routes : IF loader = "load_routes" THEN RoutesTables ELSE {Missing}]

\* the ids a loader is asked for
LoaderArgs(loader) ==
    IF loader = "get_trips_for_services" THEN SUBSET {"S1", "S2", "S3"}
    ELSE IF loader = "get_stops_for_trips" THEN SUBSET {"T1", "T2"}
    ELSE {{}}

InitLoaders ==
    /\ pc = "call"
    /\ request \in Loaders
    /\ feed_dir \in LoaderFeeds(request)
    /\ args \in LoaderArgs(request)
    /\ retval = None
    /\ date = None
    /\ active_services = <<>>
    /\ stop_arrivals = None
    /\ mappings = None
    /\ date_list = <<>>
    /\ cursor = 0
    /\ date_dir = Unbound
    /\ files = {}
    /\ config_path = None
    /\ config_file = None
    /\ entry = 0
    /\ calls = <<>>
    /\ faults = {}

LoadRoutes ==
    /\ pc = "call"
    /\ request = "load_routes"
    /\ IF load_routes_raises(feed_dir) # ""
       THEN pc' = load_routes_raises(feed_dir) /\ retval' = retval
       ELSE pc' = "return" /\ retval' = load_routes(feed_dir)
    /\ UNCHANGED <<calls, faults, feed_dir, date, active_services, args, stop_arrivals, request,
                   mappings, date_list, cursor, date_dir, files, config_path,
                   config_file, entry>>

LoadTrips == request = "get_trips_for_services" /\ GetTripsForServices

LoadStopTimes == request = "get_stops_for_trips" /\ GetStopsForTrips

\* get_all_stops has an except clause for every exception
LoadStops ==
    /\ pc = "call"
    /\ request = "get_all_stops"
    /\ retval' = get_all_stops(feed_dir)
    /\ pc' = "return"
    /\ UNCHANGED <<calls, faults, feed_dir, date, active_services, args, stop_arrivals, request,
                   mappings, date_list, cursor, date_dir, files, config_path,
                   config_file, entry>>

NextLoaders == LoadRoutes \/ LoadTrips \/ LoadStopTimes \/ LoadStops

SpecLoaders == InitLoaders /\ [][NextLoaders]_vars

\* the table a loader reads
TableOf(loader) ==
    IF loader = "load_routes" THEN feed_dir.routes
    ELSE IF loader = "get_trips_for_services" THEN feed_dir.trips
    ELSE IF loader = "get_stops_for_trips" THEN feed_dir.stop_times
    ELSE feed_dir.stops

\* the columns a loader reads
HeaderOf(loader) ==
    IF loader = "load_routes" THEN RoutesHeader
    ELSE IF loader = "get_trips_for_services" THEN TripsHeader
    ELSE IF loader = "get_stops_for_trips" THEN StopTimesHeader
    ELSE StopsHeader

\* the numeric column of a table, "" for none
NumericColumn(loader) ==
    IF loader = "get_trips_for_services" THEN "direction_id"
    ELSE IF loader = "get_stops_for_trips" THEN "stop_sequence"
    ELSE ""

\* the id a row is asked for by, and the id it is loaded under
WantedBy(loader) ==
    IF loader = "get_trips_for_services" THEN "service_id"
    ELSE IF loader = "get_stops_for_trips" THEN "trip_id"
    ELSE ""

LoadedAs(loader) ==
    IF loader = "load_routes" THEN "route_id"
    ELSE IF loader = "get_all_stops" THEN "stop_id"
    ELSE WantedBy(loader)

\* a row with a field for every column and a number, or nothing, in its
\* numeric column, that the call asks for
WellFormedRows(loader) ==
    LET table == TableOf(loader)
    IN  SelectSeq(table.rows,
            LAMBDA row :
                /\ Len(row) >= Len(table.header)
                /\ NumericColumn(loader) # "" =>
                      \/ Field(table.header, row, NumericColumn(loader)) = <<>>
                      \/ ParseInt(Field(table.header, row, NumericColumn(loader))).ok
                /\ WantedBy(loader) # "" =>
                      Field(table.header, row, WantedBy(loader)) \in args)

\* the number of records a loader returned: a list for each key of the
\* trips and of the stop times, one record for each key otherwise
RECURSIVE Loaded(_, _)
Loaded(loader, dict) ==
    IF dict = <<>> THEN 0
    ELSE (IF WantedBy(loader) # "" THEN Len(Head(dict).value) ELSE 1)
         + Loaded(loader, Tail(dict))

\* C20: a loader called on any table returns; on a missing table it returns
\* an empty structure; and when the table has its columns it returns a
\* record for every well-formed row, under the id of the row, and none for
\* the other rows.
C20_LoadersNeverRaise ==
    pc # "call" =>
        /\ pc = "return"
        /\ TableOf(request).status = "missing" => retval = <<>>
        /\ TableOf(request).header = HeaderOf(request) =>
              LET rows == WellFormedRows(request)
              IN  /\ \A i \in 1..Len(rows) :
                        Field(TableOf(request).header, rows[i], LoadedAs(request))
                            \in Keys(retval)
                  /\ Loaded(request, retval)
                        <= Len(rows)

-----------------------------------------------------------------------------
(* A run of the stop report from main (src/stop_report_new.py) to the exit  *)
(* status, with the dates processed one after the other (jobs = 1) or by    *)
(* the workers of a pool.  calls lists the arguments process_stop_date was  *)
(* called with, faults holds "pool" when the pool cannot be created, and    *)
(* stop_arrivals holds a result for each argument: pending, done or the     *)
(* exception the call ended with.                                           *)

\* the exception process_stop_date ends with, "" for a normal return: it has
\* no try around its loaders, so what load_routes, get_trips_for_services
\* and get_stops_for_trips raise leaves the function
process_stop_date_raises(feed, target_date, source_date) ==
    LET queried == date_for_query(target_date, source_date)
        all_services == Range(get_active_services(feed, queried))
                        \cup Range(get_active_services(feed, prev_date(queried)))
        trips == get_trips_for_services(feed, all_services)
        all_trip_ids ==
            {t.trip_id : t \in Range(Concat([i \in 1..Len(trips) |-> trips[i].value]))}
    IN  IF load_routes_raises(feed) # "" THEN load_routes_raises(feed)
        ELSE IF all_services = {} THEN ""
        ELSE IF get_trips_for_services_raises(feed, all_services) # ""
        THEN get_trips_for_services_raises(feed, all_services)
        ELSE get_stops_for_trips_raises(feed, all_trip_ids)

\* trips.txt whose trip of service S2 has a direction_id that is no number
TripsTableNoDirection ==
    Table(TripsHeader, << <<"R1", "S1", "T1", "Centro", <<48>>>>,
                          <<"R1", "S2", "T2", "Centro", <<120>>>> >>)

\* feeds with S1 on Mondays and S2 on Tuesdays, or S2 every day
StopRunFeeds ==
    [calendar : {c \in ReportCalendars : c # Missing /\ Len(c.rows) >= 1
                                         /\ \E i \in 1..Len(c.rows) : c.rows[i][1] = "S2"},
     calendar_dates : {Missing},
     stops : {StopsTable},
     trips : {TripsTable, TripsTableNoDirection},
     stop_times : {ReportStopTimes},
     routes : {RoutesTable, Missing}]

MaxJobs == 2

\* the arguments of generate_stop_reports_orchestrator
StopRunRequests ==
    { r \in [report : {"stops"},
             all_dates_flag : BOOLEAN,
             start_date : Dates \cup {None},
             end_date : Dates \cup {None},
             numeric_stop_code : {FALSE},
             jobs : 1..MaxJobs] :
        /\ r.all_dates_flag <=> r.start_date = None
        /\ r.all_dates_flag => r.end_date = None }

InitStopRun ==
    /\ pc = "start"
    /\ feed_dir \in StopRunFeeds
    /\ request \in StopRunRequests
    /\ mappings \in {dict \in RollingMappings : Len(dict) <= MaxRollingDates}
    /\ faults \in SUBSET {"pool"}
    /\ calls = <<>>
    /\ retval = None
    /\ date = None
    /\ active_services = <<>>
    /\ args = <<>>
    /\ stop_arrivals = <<>>
    /\ date_list = <<>>
    /\ cursor = 0
    /\ date_dir = Unbound
    /\ files = {}
    /\ config_path = None
    /\ config_file = None
    /\ entry = 0

\* what a call leaves behind: the pair it returns, or the exception it
\* ends with
CallResult(target_date, raised, boards) ==
    [date |-> target_date,
     stop_arrivals |-> IF raised = "" THEN boards ELSE <<>>,
     state |-> IF raised = "" THEN "done" ELSE raised]

\* the result of process_stop_date(args)
StopDateResult(feed, arg) ==
    CallResult(arg.target_date,
               process_stop_date_raises(feed, arg.target_date, arg.source_date),
               process_stop_date(feed, arg.target_date, arg.numeric_stop_code,
                                 arg.source_date))

\* with Pool(processes=jobs) as pool: there is no try around it, so a pool
\* that cannot be created ends the orchestrator with OSError
CreatePool ==
    /\ pc = "pool"
    /\ request.jobs # 1
    /\ cursor <= Len(args)
    /\ IF "pool" \in faults
       THEN pc' = "OSError" /\ stop_arrivals' = stop_arrivals
       ELSE /\ pc' = "map"
            /\ stop_arrivals' = [i \in 1..Len(args) |->
                                    [date |-> args[i].target_date, stop_arrivals |-> <<>>,
                                     state |-> "pending"]]
    /\ UNCHANGED <<calls, faults, retval, feed_dir, date, active_services, args, request,
                   mappings, date_list, cursor, date_dir, files, config_path, config_file,
                   entry>>

\* one call process_stop_date(args[i]).  With jobs == 1 the list
\* comprehension makes the calls in the order of the arguments, and an
\* exception of a call leaves the orchestrator at once; otherwise a worker
\* of the pool takes any argument that is pending, and pool.map raises its
\* exception when the results are collected
CallProcessStopDate ==
    /\ \E i \in 1..Len(args) :
          /\ \/ pc = "pool" /\ request.jobs = 1 /\ i = cursor
             \/ pc = "map" /\ stop_arrivals[i].state = "pending"
          /\ calls' = Append(calls, args[i])
          /\ stop_arrivals' =
                 [j \in 1..(IF pc = "pool" THEN i ELSE Len(args)) |->
                     IF j = i THEN StopDateResult(feed_dir, args[i]) ELSE stop_arrivals[j]]
          /\ pc' = IF pc = "map" \/ stop_arrivals'[i].state = "done"
                   THEN pc ELSE stop_arrivals'[i].state
    /\ cursor' = IF pc = "pool" THEN cursor + 1 ELSE cursor
    /\ UNCHANGED <<faults, retval, feed_dir, date, active_services, args, request,
                   mappings, date_list, date_dir, files, config_path, config_file, entry>>

\* pool.map returns the results in the order of the arguments, or raises
\* the exception of a call that failed
CollectResults ==
    /\ pc = "map"
    /\ \A i \in 1..Len(args) : stop_arrivals[i].state # "pending"
    /\ \/ /\ \A i \in 1..Len(args) : stop_arrivals[i].state = "done"
          /\ pc' = "pool"
          /\ cursor' = Len(args) + 1
       \/ /\ \E i \in 1..Len(args) :
                /\ stop_arrivals[i].state # "done"
                /\ pc' = stop_arrivals[i].state
          /\ cursor' = cursor
    /\ UNCHANGED <<calls, faults, retval, feed_dir, date, active_services, args,
                   stop_arrivals, request, mappings, date_list, date_dir, files,
                   config_path, config_file, entry>>

\* main: status 1 from sys.exit(1) in "except Exception", 0 at the end
ExitMain ==
    /\ pc \notin {"start", "expand", "args", "pool", "map", "preload", "dates", "exit"}
    /\ retval' = IF pc = "done" THEN 0 ELSE 1
    /\ pc' = "exit"
    /\ UNCHANGED <<calls, faults, feed_dir, date, active_services, args, stop_arrivals,
                   request, mappings, date_list, cursor, date_dir, files, config_path,
                   config_file, entry>>

NextStopRun ==
    \/ GetDateList
    \/ ExpandDateList
    \/ BuildArgs
    \/ CallProcessStopDate
    \/ CreatePool
    \/ CollectResults
    \/ WriteResults
    \/ ExitMain

SpecStopRun == InitStopRun /\ [][NextStopRun]_vars

\* the files of the boards of one argument that process_stop_date returns for
BoardFiles(arg) ==
    StopFiles([date |-> arg.target_date,
               stop_arrivals |-> process_stop_date(feed_dir, arg.target_date,
                                                   arg.numeric_stop_code, arg.source_date)])

\* C21: when the run has ended, the boards of every date whose processing
\* does not fail have been written, whatever happened to the other dates
\* (the pool itself being available).
C21_OtherDatesStillWritten ==
    (pc = "exit" /\ "pool" \notin faults) =>
        \A i \in 1..Len(args) :
            process_stop_date_raises(feed_dir, args[i].target_date, args[i].source_date) = ""
                => BoardFiles(args[i]) \subseteq files

\* C27: when the pool cannot be created the run still collects a result for
\* every date, by processing them one after the other; and with a pool that
\* works no date is processed a second time because another date failed.
C27_PoolFailureFallsBack ==
    (pc = "exit" /\ request.jobs # 1 /\ args # <<>>) =>
        /\ "pool" \in faults =>
              /\ Len(stop_arrivals) = Len(args)
              /\ \A i \in 1..Len(args) :
                    /\ stop_arrivals[i].date = args[i].target_date
                    /\ stop_arrivals[i].state # "pending"
        /\ "pool" \notin faults => Len(calls) <= Len(args)

\* the source date process_stop_date is to be given for a date of the list
SourceOf(d) ==
    IF d \in Keys(mappings) /\ Truthy(DictGet(mappings, d, None))
    THEN DictGet(mappings, d, None) ELSE None

\* C28: in a run that completes, process_stop_date has been called exactly
\* once for each date of the expanded list, with the date's source date for
\* a rolling date and none for a normal date, and the collected pairs are
\* those of the calls in the order of the arguments, whatever the number of
\* jobs and the order in which the workers ran.
C28_EachDateOnceSameResults ==
    pc = "done" =>
        /\ Len(calls) = Len(date_list)
        /\ \A d \in Range(date_list) :
              /\ Cardinality({k \in 1..Len(calls) : calls[k].target_date = d}) = 1
              /\ \A k \in 1..Len(calls) :
                    calls[k].target_date = d => calls[k].source_date = SourceOf(d)
        /\ Len(stop_arrivals) = Len(args)
        /\ \A i \in 1..Len(args) :
              /\ stop_arrivals[i].date = args[i].target_date
              /\ stop_arrivals[i].stop_arrivals =
                     process_stop_date(feed_dir, args[i].target_date,
                                       args[i].numeric_stop_code, args[i].source_date)

\* two workers took a normal and a rolling date in the other order than the
\* arguments, and the run completed with boards for both
C28_WorkersOutOfOrder ==
    /\ pc = "done"
    /\ request.jobs = 2
    /\ Len(args) = 2
    /\ args[2].source_date # None
    /\ calls[1] = args[2]
    /\ \A i \in 1..2 : DOMAIN stop_arrivals[i].stop_arrivals # {}

-----------------------------------------------------------------------------
(* A run of the service report from main (src/service_report_new.py) to the *)
(* exit status.  retval holds what Preload loaded and, at the exit, the     *)
(* status; calls holds the calls of the two loaders and, for each date      *)
(* with an active service, the trips and stop times its pages were made     *)
(* from; faults holds the services whose page cannot be written.            *)

\* the services of the feeds
ServiceIds == {"S1", "S2"}

InitServiceRun ==
    /\ pc = "start"
    /\ feed_dir \in StopRunFeeds
    /\ request \in {r \in Requests : r.report = "services"}
    /\ mappings \in {dict \in RollingMappings : Len(dict) <= MaxRollingDates}
    /\ faults \in SUBSET ServiceIds
    /\ calls = <<>>
    /\ retval = None
    /\ date = None
    /\ active_services = <<>>
    /\ args = <<>>
    /\ stop_arrivals = <<>>
    /\ date_list = <<>>
    /\ cursor = 0
    /\ date_dir = Unbound
    /\ files = {}
    /\ config_path = None
    /\ config_file = None
    /\ entry = 0

NextServiceRun ==
    \/ GetDateList
    \/ ExpandDateList
    \/ Preload
    \/ ProcessDate
    \/ FeedIndex
    \/ ExitMain

SpecServiceRun == InitServiceRun /\ [][NextServiceRun]_vars

-----------------------------------------------------------------------------
(* Claims about a run of the service report.                                *)

\* the dates processed so far, with what their pages were made from
DatesProcessed == SelectSeq(calls, LAMBDA c : c.fn = "date")

\* a service of a processed date whose page could not be written
ServiceFailed ==
    \E i \in 1..Len(DatesProcessed) :
        \E j \in 1..Len(DatesProcessed[i].trips) : DatesProcessed[i].trips[j].key \in faults

\* C22: if any unit of the run fails (here a service of a date of the
\* service report), the process ends with a non-zero exit status; the status
\* is zero only when every unit succeeded.
C22_ExitStatusReflectsFailures ==
    (pc = "exit" /\ retval = 0) => ~ServiceFailed

\* the calls of a loader
CallsOf(fn) == SelectSeq(calls, LAMBDA c : c.fn = fn)

\* C26: the trips loader and the stop-times loader are each called once in a
\* run, before the first date is processed, the trips loader on the union of
\* the services active on every queried date (the source date for a rolling
\* date); the trips and stop times filtered from the shared result for a date
\* are those the loaders return when called for that date alone.
C26_LoadedOnceForAllDates ==
    pc \in {"dates", "done"} =>
        /\ Len(CallsOf("get_trips_for_services")) = 1
        /\ Len(CallsOf("get_stops_for_trips")) = 1
        /\ {calls[1].fn, calls[2].fn} = {"get_trips_for_services", "get_stops_for_trips"}
        /\ CallsOf("get_trips_for_services")[1].arg =
               UNION {Range(ServicesOf(date_list[i])) : i \in 1..Len(date_list)}
        /\ \A i \in 1..Len(DatesProcessed) :
              LET alone == get_trips_for_services(feed_dir,
                               Range(ServicesOf(DatesProcessed[i].date)))
              IN  /\ DatesProcessed[i].trips = alone
                  /\ DatesProcessed[i].stops_for_trips =
                         get_stops_for_trips(feed_dir, TripIdsOf(alone))

\* two dates were processed from one load, one of them a rolling date, and
\* neither has all the trips that were loaded
C26_TwoDatesFromOneLoad ==
    /\ pc = "done"
    /\ Len(CallsOf("get_trips_for_services")) = 1
    /\ Len(DatesProcessed) = 2
    /\ \E i \in 1..2 : DatesProcessed[i].date \in Keys(mappings)
    /\ \A i \in 1..2 :
          /\ DatesProcessed[i].trips # <<>>
          /\ DatesProcessed[i].stops_for_trips # <<>>
          /\ Len(DatesProcessed[i].trips) < Cardinality(CallsOf("get_trips_for_services")[1].arg)

-----------------------------------------------------------------------------
(* Claims about the paths written in one run.                               *)

\* C23: within one run no output file path is written more than once: the
\* distinct services reported for a date are written to distinct files (each
\* turn of the loop over the services writes the file its entry names).
C23_NoPathWrittenTwice ==
    pc = "done" =>
        \A i, j \in 1..Len(retval) : i # j => retval[i].filename # retval[j].filename

-----------------------------------------------------------------------------
(* next_streets of an arrival record (process_stop_date, lines 571-582) and *)
(* get_street_name (src/src/street_name.py).  A stop name is a field of a   *)
(* line of stops.txt split at its commas: it holds no comma and no line     *)
(* feed, and the only white space of the names of the model is the space.   *)

\* the characters of re_remove_quotation_marks: '"' and U+201D
QuotationMarks == {34, 8221}

\* re.IGNORECASE, for the letters of ASCII and Latin-1
Lower(c) == IF c \in 65..90 \/ (c \in 192..222 /\ c # 215) THEN c + 32 ELSE c

\* one of ',', two spaces, ' - ', ' ' and a digit, ' S/N', ' (' starts at k
StopCharactersAt(s, k) ==
    LET at(j) == IF k + j <= Len(s) THEN s[k + j] ELSE 0
    IN  \/ at(0) = 44
        \/ at(0) = 32 /\ at(1) = 32
        \/ at(0) = 32 /\ at(1) = 45 /\ at(2) = 32
        \/ at(0) = 32 /\ IsDigit(at(1))
        \/ at(0) = 32 /\ Lower(at(1)) = 115 /\ at(2) = 47 /\ Lower(at(3)) = 110
        \/ at(0) = 32 /\ at(1) = 40

\* group 1 of re_anything_before_stopcharacters_with_parentheses, or the
\* name when the pattern does not match
re_anything_before_stopcharacters(s) ==
    IF \E k \in 1..Len(s) : StopCharactersAt(s, k)
    THEN SubSeq(s, 1, (CHOOSE k \in 1..Len(s) :
                          /\ StopCharactersAt(s, k)
                          /\ \A j \in 1..(k - 1) : ~StopCharactersAt(s, j)) - 1)
    ELSE s

exception_streets ==
    { <<65, 118, 100, 97, 46, 32, 100, 111, 32, 65, 101, 114, 111, 112, 111, 114, 116, 111>>,
      <<65, 118, 100, 97, 46, 32, 100, 101, 32, 83, 97, 109, 105, 108>>,
      <<65, 118, 100, 97, 46, 32, 100, 101, 32, 67, 97, 115, 116, 114, 101, 108, 111, 115>>,
      <<69, 115, 116, 114, 97, 100, 97, 32, 100, 97, 32, 71, 97, 114, 114, 105, 100, 97>>,
      <<69, 115, 116, 114, 97, 100, 97, 32, 100, 101, 32, 86, 97, 108, 97, 100, 97, 114, 101, 115>>,
      <<69, 115, 116, 114, 97, 100, 97, 32, 100, 111, 32, 77, 111, 110, 116, 101, 32, 65, 108, 98, 97>>,
      <<69, 115, 116, 114, 97, 100, 97, 32, 100, 97, 32, 71, 225, 110, 100, 97, 114, 97>>,
      <<69, 115, 116, 114, 97, 100, 97, 32, 100, 111, 32, 86, 97, 111>>,
      <<65, 118, 100, 97, 46, 32, 100, 111, 32, 84, 114, 97, 110, 118, 237, 97>>,
      <<65, 118, 100, 97, 46, 32, 100, 97, 32, 65, 116, 108, 225, 110, 116, 105, 100, 97>>,
      <<65, 118, 100, 97, 46, 32, 100, 97, 32, 80, 111, 110, 116, 101>>,
      <<82, 250, 97, 32, 100, 97, 32, 67, 114, 117, 122>>,
      <<69, 115, 116, 114, 97, 100, 97, 32, 100, 97, 115, 32, 80, 114, 97, 110, 116, 97, 115>> }

\* the street types of re_remove_street_type in the order the pattern tries
\* them, "Avda." before "Avda"
StreetTypes ==
    << <<114, 250, 97>>,
       <<97, 118, 100, 97, 46>>,
       <<97, 118, 100, 97>>,
       <<97, 118, 101, 110, 105, 100, 97>>,
       <<99, 97, 109, 105, 241, 111>>,
       <<101, 115, 116, 114, 97, 100, 97>> >>

HasStreetType(s, type) ==
    /\ Len(s) >= Len(type)
    /\ [i \in 1..Len(type) |-> Lower(s[i])] = type

RECURSIVE SkipSpaces(_)
SkipSpaces(s) == IF s # <<>> /\ s[1] = 32 THEN SkipSpaces(Tail(s)) ELSE s

\* the optional group (?:\s+d[aeo]s?)? taken from the front of s
SkipPreposition(s) ==
    LET t == SkipSpaces(s)
    IN  IF /\ s # <<>> /\ s[1] = 32
           /\ Len(t) >= 2 /\ Lower(t[1]) = 100 /\ Lower(t[2]) \in {97, 101, 111}
        THEN IF Len(t) >= 3 /\ Lower(t[3]) = 115
             THEN SubSeq(t, 4, Len(t)) ELSE SubSeq(t, 3, Len(t))
        ELSE s

\* re.sub(re_remove_street_type, '', street_name)
re_remove_street_type(s) ==
    IF \E i \in 1..Len(StreetTypes) : HasStreetType(s, StreetTypes[i])
    THEN LET i == CHOOSE i \in 1..Len(StreetTypes) :
                      /\ HasStreetType(s, StreetTypes[i])
                      /\ \A j \in 1..(i - 1) : ~HasStreetType(s, StreetTypes[j])
         IN  SkipSpaces(SkipPreposition(SubSeq(s, Len(StreetTypes[i]) + 1, Len(s))))
    ELSE s

get_street_name(original_name) ==
    LET name == Strip(SelectSeq(original_name, LAMBDA c : c \notin QuotationMarks))
        street_name == re_anything_before_stopcharacters(name)
    IN  IF street_name \in exception_streets THEN street_name
        ELSE Strip(re_remove_street_type(street_name))

\* a mutant of is_new_street: only a repeat of the street listed last is
\* left out
is_new_street_after_other(street, next_streets, stop_street_name) ==
    /\ next_streets = <<>> \/ street # next_streets[Len(next_streets)]
    /\ street # stop_street_name

\* "if street not in next_streets and street != stop_street_name"
is_new_street(street, next_streets, stop_street_name) ==
    /\ street \notin Range(next_streets)
    /\ street # stop_street_name

\* "for remaining_stop in remaining_stops"
RECURSIVE NextStreetsLoop(_, _, _, _, _)
NextStreetsLoop(remaining_stops, k, stops, stop_street_name, next_streets) ==
    IF k > Len(remaining_stops) THEN next_streets
    ELSE LET stop_name == DictGet(stops, remaining_stops[k], <<>>)
         IN  IF stop_name # <<>>
                /\ is_new_street(get_street_name(stop_name), next_streets, stop_street_name)
             THEN NextStreetsLoop(remaining_stops, k + 1, stops, stop_street_name,
                                  Append(next_streets, get_street_name(stop_name)))
             ELSE NextStreetsLoop(remaining_stops, k + 1, stops, stop_street_name,
                                  next_streets)

\* next_streets of the stop at position i of the stops of a trip
next_streets(trip_stops, i, stops) ==
    NextStreetsLoop(SubSeq(trip_stops, i + 1, Len(trip_stops)), 1, stops,
                    get_street_name(DictGet(stops, trip_stops[i], <<>>)), <<>>)

\* stop_id -> stop_name: two stops of one street, a street of
\* exception_streets, a square, a stop without a name, a name in quotation
\* marks and capitals
StreetStops ==
    << [key |-> "A", value |-> <<82, 250, 97, 32, 67, 111, 114, 117, 241, 97, 32, 49, 50>>],
       [key |-> "B", value |-> <<82, 250, 97, 32, 67, 111, 114, 117, 241, 97, 32, 40, 102, 114, 111, 110, 116, 101, 32, 53, 48, 41>>],
       [key |-> "C", value |-> <<65, 118, 100, 97, 46, 32, 100, 101, 32, 67, 97, 115, 116, 114, 101, 108, 111, 115, 32, 49, 48, 48>>],
       [key |-> "D", value |-> <<80, 114, 97, 122, 97, 32, 65, 109, 233, 114, 105, 99, 97>>],
       [key |-> "E", value |-> <<>>],
       [key |-> "F", value |-> <<34, 65, 86, 69, 78, 73, 68, 65, 32, 100, 97, 115, 32, 67, 97, 109, 101, 108, 105, 97, 115, 34, 32, 83, 47, 78>>] >>

\* "Z" is the stop_id of no stop
StreetStopIds == Keys(StreetStops) \cup {"Z"}

MaxTripStops == 4

\* args is the stops of a trip, cursor the position of the current stop,
\* retval its next_streets
InitNextStreets ==
    /\ pc = "trip"
    /\ args \in SeqsUpTo(StreetStopIds, MaxTripStops) \ {<<>>}
    /\ cursor = 0
    /\ retval = <<>>
    /\ feed_dir = None
    /\ request = None
    /\ mappings = <<>>
    /\ date = None
    /\ active_services = <<>>
    /\ stop_arrivals = <<>>
    /\ date_list = <<>>
    /\ date_dir = Unbound
    /\ files = {}
    /\ config_path = None
    /\ config_file = None
    /\ entry = 0
    /\ calls = <<>>
    /\ faults = {}

\* one turn of "for i, stop_time in enumerate(trip_stops)": a stop that is
\* not in stops gets no record
NextStop ==
    /\ pc = "trip"
    /\ cursor < Len(args)
    /\ cursor' = cursor + 1
    /\ retval' = IF args[cursor + 1] \in Keys(StreetStops)
                 THEN next_streets(args, cursor + 1, StreetStops)
                 ELSE <<>>
    /\ UNCHANGED <<calls, faults, pc, feed_dir, date, active_services, args, stop_arrivals,
                   request, mappings, date_list, date_dir, files, config_path,
                   config_file, entry>>

NextNextStreets == NextStop

SpecNextStreets == InitNextStreets /\ [][NextNextStreets]_vars

-----------------------------------------------------------------------------
(* Claims about next_streets.                                               *)

\* a record was made for the stop at cursor
HasRecord == cursor >= 1 /\ args[cursor] \in Keys(StreetStops)

\* the street of the current stop
OwnStreet == get_street_name(DictGet(StreetStops, args[cursor], <<>>))

\* the streets of the stops after the current one that have a name, in
\* travel order
FollowingStreets ==
    LET named == SelectSeq(SubSeq(args, cursor + 1, Len(args)),
                           LAMBDA id : DictGet(StreetStops, id, <<>>) # <<>>)
    IN  [k \in 1..Len(named) |-> get_street_name(DictGet(StreetStops, named[k], <<>>))]

\* a list with each run of equal elements collapsed to one
RECURSIVE CollapseRuns(_)
CollapseRuns(list) ==
    IF Len(list) <= 1 THEN list
    ELSE LET before == CollapseRuns(SubSeq(list, 1, Len(list) - 1))
         IN  IF list[Len(list)] = list[Len(list) - 1] THEN before
             ELSE Append(before, list[Len(list)])

\* C24 as stated: next_streets lists, in travel order, the street names of
\* the stops that follow the current one, collapsing only consecutive
\* repeats, so that a street the trip returns to after a different street is
\* listed again.
C24_ConsecutiveRepeatsCollapsed ==
    HasRecord => retval = CollapseRuns(FollowingStreets)

\* C24 amended: next_streets lists each street name of the named stops that
\* follow the current one, other than the street of the current stop, once,
\* in the order in which the trip first reaches it: a street the trip
\* returns to is not listed again.
C24_EachOtherStreetOnce ==
    HasRecord =>
        /\ Range(retval) = Range(FollowingStreets) \ {OwnStreet}
        /\ \A a, b \in 1..Len(retval) :
              a < b => /\ retval[a] # retval[b]
                       /\ Index(FollowingStreets, retval[a]) < Index(FollowingStreets, retval[b])

\* the trip returns to a street after a different one, and the street is
\* listed once
C24_StreetReturnedToListedOnce ==
    /\ HasRecord
    /\ Len(FollowingStreets) = 3
    /\ FollowingStreets[1] = FollowingStreets[3]
    /\ FollowingStreets[1] # FollowingStreets[2]
    /\ OwnStreet \notin Range(FollowingStreets)
    /\ retval = SubSeq(FollowingStreets, 1, 2)

-----------------------------------------------------------------------------
(* download_feed_from_url (src/src/download.py).  request holds the         *)
(* arguments output_dir and force_download, config_file the .gtfsmetadata   *)
(* file of output_dir when the call is made, feed_dir the server behind     *)
(* feed_url: what it answers to HEAD and to GET.  calls is the requests     *)
(* sent, files the metadata the call saves, retval the value returned:      *)
(* None, or the directory the feed was extracted to.                        *)

\* the .gtfsmetadata file: missing, unreadable as JSON, or as _save_metadata
\* writes it
MetadataFiles ==
    {[status |-> "missing"], [status |-> "corrupt"]}
    \cup [status : {"saved"}, etag : {None, <<>>, <<101, 49>>},
          last_modified : {None, <<>>, <<100, 49>>}]

\* _load_metadata: None for no file and for a file json.load rejects
_load_metadata(file) ==
    IF file.status = "saved"
    THEN [etag |-> file.etag, last_modified |-> file.last_modified]
    ELSE None

\* the headers of the conditional request
ConditionalHeaders(file) ==
    (IF file.etag \notin {None, <<>>} THEN {"If-None-Match"} ELSE {})
    \cup (IF file.last_modified \notin {None, <<>>} THEN {"If-Modified-Since"} ELSE {})

\* a mutant of _check_if_modified: without an ETag no request is made
_check_if_modified_by_etag(file, server) ==
    IF file.status # "saved" \/ file.etag \in {None, <<>>}
    THEN [is_modified |-> TRUE, requested |-> FALSE]
    ELSE [is_modified |-> server.head # 304, requested |-> TRUE]

\* _check_if_modified: is_modified, and whether requests.head was called.
\* The answer of the server is a status, or 0 for a RequestException
_check_if_modified(file, server) ==
    IF file.status # "saved" \/ ConditionalHeaders(file) = {}
    THEN [is_modified |-> TRUE, requested |-> FALSE]
    ELSE [is_modified |-> server.head # 304, requested |-> TRUE]

\* gtfs_vigo_..., the directory of tempfile.mkdtemp
temp_dir == <<103, 116, 102, 115>>

Servers ==
    [head : {304, 200, 500, 0}, get : {200, 404},
     etag : {None, <<101, 50>>}, last_modified : {None, <<100, 50>>}]

InitDownload ==
    /\ pc = "start"
    /\ request \in [output_dir : {None, <<111, 117, 116>>}, force_download : BOOLEAN]
    /\ config_file \in MetadataFiles
    /\ feed_dir \in Servers
    /\ calls = <<>>
    /\ retval = <<>>
    /\ mappings = <<>>
    /\ date = None
    /\ active_services = <<>>
    /\ args = <<>>
    /\ stop_arrivals = <<>>
    /\ date_list = <<>>
    /\ cursor = 0
    /\ date_dir = Unbound
    /\ files = {}
    /\ config_path = None
    /\ entry = 0
    /\ faults = {}

\* "if not force_download and output_dir": the conditional check
CheckIfModified ==
    /\ pc = "start"
    /\ ~request.force_download /\ request.output_dir # None
    /\ LET check == _check_if_modified(config_file, feed_dir)
       IN  /\ calls' = IF check.requested THEN Append(calls, "head") ELSE calls
           /\ IF check.is_modified
              THEN pc' = "get" /\ retval' = retval
              ELSE pc' = "return" /\ retval' = None
    /\ UNCHANGED <<faults, feed_dir, date, active_services, args, stop_arrivals, request,
                   mappings, date_list, cursor, date_dir, files, config_path,
                   config_file, entry>>

\* the check is skipped
SkipCheck ==
    /\ pc = "start"
    /\ request.force_download \/ request.output_dir = None
    /\ pc' = "get"
    /\ UNCHANGED <<calls, faults, retval, feed_dir, date, active_services, args,
                   stop_arrivals, request, mappings, date_list, cursor, date_dir, files,
                   config_path, config_file, entry>>

\* requests.get, the metadata of the response, the extraction
Download ==
    /\ pc = "get"
    /\ calls' = Append(calls, "get")
    /\ IF feed_dir.get # 200
       THEN pc' = "Exception" /\ UNCHANGED <<retval, files>>
       ELSE /\ pc' = "return"
            /\ retval' = temp_dir
            /\ files' =
                   IF request.output_dir # None
                      /\ (feed_dir.etag # None \/ feed_dir.last_modified # None)
                   THEN {[status |-> "saved", etag |-> feed_dir.etag,
                          last_modified |-> feed_dir.last_modified]}
                   ELSE files
    /\ UNCHANGED <<faults, feed_dir, date, active_services, args, stop_arrivals, request,
                   mappings, date_list, cursor, date_dir, config_path, config_file, entry>>

NextDownload == CheckIfModified \/ SkipCheck \/ Download

SpecDownload == InitDownload /\ [][NextDownload]_vars

-----------------------------------------------------------------------------
(* Claims about the download.                                               *)

\* metadata with an ETag or a Last-Modified is stored for the output
\* directory
ValidatorStored ==
    /\ request.output_dir # None
    /\ config_file.status = "saved"
    /\ config_file.etag \notin {None, <<>>} \/ config_file.last_modified \notin {None, <<>>}

\* C25: the call returns None without downloading exactly when the download
\* is not forced, metadata with an ETag or a Last-Modified is stored for the
\* output directory and the server answers the conditional check with 304;
\* a forced call makes no conditional check and downloads the feed.
C25_SkippedExactlyOnNotModified ==
    pc \in {"return", "Exception"} =>
        /\ (pc = "return" /\ retval = None)
               <=> (~request.force_download /\ ValidatorStored /\ feed_dir.head = 304)
        /\ (pc = "return" /\ retval = None) <=> "get" \notin Range(calls)
        /\ request.force_download => calls = <<"get">>

\* a call skipped on the Last-Modified alone, and no GET was sent
C25_SkippedOnLastModified ==
    /\ pc = "return"
    /\ retval = None
    /\ config_file.etag = None
    /\ calls = <<"head">>

-----------------------------------------------------------------------------
(* Claims about the exceptions of a feed whose calendar.txt gives nothing.  *)

\* calendar.txt is missing, holds only a header, or has a header that lacks
\* a weekday column
CalendarGivesNothing ==
    \/ feed_dir.calendar.status = "missing"
    \/ Len(feed_dir.calendar.rows) = 0
    \/ \E c \in Range(WeekdayNames) : Index(feed_dir.calendar.header, c) = 0

\* C29: whatever the state of calendar.txt (missing, only a header, a header
\* lacking a weekday column), the exceptions of calendar_dates.txt for the
\* queried date are applied: every service a type-1 row adds and no type-2
\* row removes is returned, and nothing else is.
C29_ExceptionsAppliedWithoutCalendar ==
    (pc = "return" /\ CalendarGivesNothing) =>
        /\ ExceptionsOn(feed_dir, date, "1") \ ExceptionsOn(feed_dir, date, "2")
               \subseteq Range(active_services)
        /\ Range(active_services) \subseteq ExceptionsOn(feed_dir, date, "1")

-----------------------------------------------------------------------------
(* Claims about the boards of consecutive dates.                            *)

DayAfter(d) == Strftime(NextDay(Strptime(d)))

\* the board of the day after the queried date, processed as a normal date
NextBoard ==
    process_stop_date(feed_dir, DayAfter(args.target_date), args.numeric_stop_code, None)

\* how many records of the boards of one date list row i
TimesListed(boards, i) ==
    Cardinality({e \in UNION {{<<c, k>> : k \in 1..Len(boards[c])} : c \in DOMAIN boards} :
                    /\ e[1] = Listing(i).code
                    /\ boards[e[1]][e[2]].trip_id = Listing(i).trip_id
                    /\ boards[e[1]][e[2]].stop_sequence = Listing(i).stop_sequence
                    /\ boards[e[1]][e[2]].arrival_time = Listing(i).arrival_time})

\* how many rows of stop_times.txt are the stop time of row i
TimesInFile(i) == Cardinality({j \in BoardRows : Listing(j) = Listing(i)})

\* C30: for a normal date D and every stop time (of a stop with a stop code,
\* with a well-formed arrival time) of a service that runs on D: it is
\* listed once for each of its rows on D's board when its arrival is below
\* 24:00:00 and on the board of D+1 when it is a next-day time, and D's
\* service day puts it on no other of the two boards.
C30_OncePerServiceDay ==
    (pc = "return" /\ args.source_date = None) =>
        \A i \in BoardRows :
            (/\ ParseTime(feed_dir.stop_times.rows[i][2]).ok
             /\ ServiceOfRow(i) \in ActiveOn(args.target_date))
            => IF IsNextDayTime(feed_dir.stop_times.rows[i][2])
               THEN /\ TimesListed(NextBoard, i) = TimesInFile(i)
                    /\ ServiceOfRow(i) \notin ActiveOn(DayBefore(args.target_date))
                          => TimesListed(stop_arrivals, i) = 0
               ELSE /\ TimesListed(stop_arrivals, i) = TimesInFile(i)
                    /\ ServiceOfRow(i) \notin ActiveOn(DayAfter(args.target_date))
                          => TimesListed(NextBoard, i) = 0

\* S1 runs on Monday only; its trip arrives at 23:50:00 and at 24:15:00: the
\* first is on Monday's board only, the second on Tuesday's only
C30_EveningAndPastMidnight ==
    /\ pc = "return"
    /\ args.source_date = None
    /\ args.target_date = Strftime(DateAt(0))
    /\ ActiveOn(args.target_date) = {"S1"}
    /\ "S1" \notin ActiveOn(DayAfter(args.target_date))
    /\ "S1" \notin ActiveOn(DayBefore(args.target_date))
    /\ \E i, j \in BoardRows :
          /\ feed_dir.stop_times.rows[i] = StopTimeRow("T1", TimeStr(23, 50, 0), "A", 1)
          /\ feed_dir.stop_times.rows[j] = StopTimeRow("T1", TimeStr(24, 15, 0), "A", 2)
          /\ TimesListed(stop_arrivals, i) = 1 /\ TimesListed(NextBoard, i) = 0
          /\ TimesListed(stop_arrivals, j) = 0 /\ TimesListed(NextBoard, j) = 1

=============================================================================
